---- MODULE Spec2Model ----
(***************************************************************************)
(* Model of apps/sim/lib/copilot/local-agent.ts: the tool-calling loop of  *)
(* createAnthropicStream (the Controller), the dispatcher executeToolCall  *)
(* and the events written to the outbound ReadableStream.                  *)
(*                                                                         *)
(* JavaScript values are modelled as follows.  An object is a function     *)
(* from its keys to its values, undefined is the string "undefined", a     *)
(* content array is a sequence of blocks.  request.message, a string in    *)
(* the source, is carried as the single text block the provider reads it   *)
(* as.  Objects reachable through two references (the content array of     *)
(* finalMessage and of the assistant turn pushed at line 1261, the input   *)
(* of a tool_use block and the toolInput parameter of executeToolCall) are *)
(* one JavaScript object: a write through one reference is applied to      *)
(* every copy the model holds.                                             *)
(*                                                                         *)
(* The provider client (MessageStream of the Anthropic SDK) is outside     *)
(* the repository.  Its contract: finalMessage() resolves with the         *)
(* completed message, or, when the stream fails, the 'error' listeners run *)
(* and finalMessage() rejects.  Tools return JSON values.                  *)
(***************************************************************************)
EXTENDS Integers, Sequences, FiniteSets, TLC

\* ------------------------------------------------------------------ bounds
\* Most tool_use blocks the provider puts in one turn.
MaxBatch == 2
\* Most departures from the plain run (an extra tool_use block in a turn, a
\* tool_use other than the default one, a tool call that fails) in one request.
MaxDeviations == 2
\* Most 'text' events the provider stream delivers in one request.
MaxStreamed == 3
\* Longest "short" tool list of a request; the long ones sit around MAX_TOOLS.
MaxFew == 3
\* Deepest nesting of a schema inside a schema handed to cleanJsonSchema.
MaxNesting == 1
\* Most provider turns of each of two requests handled at once.
MaxPairTurns == 2

\* ------------------------------------------------------- program constants
maxIterations == 10
MAX_TOOLS == 100

Undefined == "undefined"
DisplayMessage == "Sorry, I encountered an error. Please try again."

\* ------------------------------------------------------------ JS helpers
\* obj[k] = v on a JavaScript object.
Put(obj, k, v) == [x \in (DOMAIN obj) \cup {k} |-> IF x = k THEN v ELSE obj[x]]

\* { ...defaults, ...obj }: the keys of obj win.
Spread(defaults, obj) ==
  [x \in (DOMAIN defaults) \cup (DOMAIN obj) |-> IF x \in DOMAIN obj THEN obj[x] ELSE defaults[x]]

\* {}
EmptyObject == [x \in {} |-> "undefined"]

Last(s) == s[Len(s)]

\* --------------------------------------------------------------- blocks
TextBlock(t) == [type |-> "text", text |-> t]
ToolUseBlock(id, name, input) == [type |-> "tool_use", id |-> id, name |-> name, input |-> input]

\* finalMessage.content.filter(c => c.type === 'tool_use')
ToolUseBlocksReversed(content) ==
  LET f == SelectSeq(content, LAMBDA c : c.type = "tool_use")
  IN  [i \in 1..Len(f) |-> f[Len(f) + 1 - i]]
ToolUseBlocks(content) == SelectSeq(content, LAMBDA c : c.type = "tool_use")

\* Position in content of the k-th tool_use block (the object the loop
\* variable toolUse refers to).
RECURSIVE PositionOf(_, _, _)
PositionOf(content, k, from) ==
  IF content[from].type = "tool_use"
    THEN IF k = 1 THEN from ELSE PositionOf(content, k - 1, from + 1)
    ELSE PositionOf(content, k, from + 1)

\* --------------------------------------------------------------- request
UserIds == {"user-1"}
WorkflowIds == {"wf-1"}
OAuthChoices == {<<>>, <<"google">>, <<"google", "slack">>}
PriorHistory ==
  << [role |-> "user", content |-> <<TextBlock("earlier question")>>],
     [role |-> "assistant", content |-> <<TextBlock("earlier answer")>>] >>
HistoryChoices == { [present |-> FALSE, turns |-> <<>>],
                    [present |-> TRUE, turns |-> PriorHistory] }
Requests ==
  [ message : {"Create auto email sender on new message"},
    userId : UserIds,
    workflowId : WorkflowIds,
    oauth : OAuthChoices,
    conversationHistory : HistoryChoices ]

\* The requests the loop is run on: with and without caller-supplied history.
LoopRequests == { r \in Requests : r.oauth = <<"google">> }

\* ------------------------------------------------------------ dispatcher
PrivilegedTools ==
  {"edit_workflow", "get_workflow_console", "get_blocks_metadata", "get_blocks_and_tools"}
\* Names resolved by executeTool: one the registry knows, one it does not.
RegistryTools == {"search_documentation", "no_such_tool"}
ToolNames == {"function_execute"} \cup PrivilegedTools \cup RegistryTools

\* What the tool itself does once invoked: it returns a value, throws an Error,
\* throws a value that is no Error, or (a registry tool) resolves with
\* {success: false, error}.
Behaviours == {"returns", "throwsError", "throwsValue", "reportsFailure"}
Failing(toolName, behaviour) ==
  \/ behaviour \in {"throwsError", "throwsValue"}
  \/ behaviour = "reportsFailure" /\ toolName \notin PrivilegedTools \cup {"function_execute"}

ThrownMessage == "tool error message"
ReportedError == "tool reported error"
ToolOutput == "tool output"

RequestContext(request) == [workflowId |-> request.workflowId, userId |-> request.userId]

\* The writes executeToolCall makes to its toolInput parameter before it awaits
\* the tool: none on the function_execute and privileged branches, credential
\* and _context on the registry branch.
ToolInputAfterModelContext(toolName, toolInput, request) ==
  IF toolName \in {"function_execute"} \cup PrivilegedTools
    THEN toolInput
    ELSE LET withCredential ==
               IF Len(request.oauth) > 0
                 THEN Put(toolInput, "credential", request.oauth[1])
                 ELSE toolInput
         IN  Spread([_context |-> RequestContext(request)], withCredential)
ToolInputAfter(toolName, toolInput, request) ==
  IF toolName \in {"function_execute"} \cup PrivilegedTools
    THEN toolInput
    ELSE LET withCredential ==
               IF Len(request.oauth) > 0
                 THEN Put(toolInput, "credential", request.oauth[1])
                 ELSE toolInput
         IN  Put(withCredential, "_context", RequestContext(request))

\* The arguments the tool is invoked with.
ToolArgsRequestWins(toolName, toolInput, request) ==
  CASE toolName = "function_execute" -> toolInput
    [] toolName \in {"edit_workflow", "get_workflow_console"} ->
         Spread(toolInput, [workflowId |-> request.workflowId])
    [] toolName = "get_blocks_metadata" -> toolInput
    [] toolName = "get_blocks_and_tools" -> EmptyObject
    [] OTHER -> ToolInputAfter(toolName, toolInput, request)
ToolArgs(toolName, toolInput, request) ==
  CASE toolName = "function_execute" -> toolInput
    [] toolName \in {"edit_workflow", "get_workflow_console"} ->
         Spread([workflowId |-> request.workflowId], toolInput)
    [] toolName = "get_blocks_metadata" -> toolInput
    [] toolName = "get_blocks_and_tools" -> EmptyObject
    [] OTHER -> ToolInputAfter(toolName, toolInput, request)

\* The second argument of the call: {userId} for edit_workflow, the
\* executionContext for a registry tool (its userId and workflowId; the empty
\* maps and sets of the rest are left out), none for the others.
ToolContext(toolName, request) ==
  CASE toolName = "edit_workflow" -> [userId |-> request.userId]
    [] toolName \in {"function_execute"} \cup (PrivilegedTools \ {"edit_workflow"}) -> EmptyObject
    [] OTHER -> [userId |-> request.userId, workflowId |-> request.workflowId]

\* error instanceof Error ? error.message : <fallback of the branch>
FallbackMessage(toolName) ==
  CASE toolName = "function_execute" -> "Code execution failed"
    [] toolName = "edit_workflow" -> "Workflow edit failed"
    [] toolName = "get_workflow_console" -> "Failed to get workflow data"
    [] toolName = "get_blocks_metadata" -> "Failed to get blocks metadata"
    [] toolName = "get_blocks_and_tools" -> "Failed to get blocks and tools"
    [] OTHER -> "Unknown execution error"

Returned(success, result, error) ==
  [threw |-> FALSE, success |-> success, result |-> result, error |-> error]
Threw(message) ==
  [threw |-> TRUE, success |-> FALSE, result |-> Undefined, error |-> message]

\* The catch blocks of executeToolCall: the inner one of each special branch
\* and the outer one around the whole body.
CatchNothing(toolName, behaviour) ==
  Threw(IF behaviour = "throwsError" THEN ThrownMessage ELSE "thrown value")
Catch(toolName, behaviour) ==
  Returned(FALSE, Undefined,
           IF behaviour = "throwsError" THEN ThrownMessage ELSE FallbackMessage(toolName))

\* executeToolCall(toolName, toolInput, request), given what the tool does.
executeToolCall(toolName, toolInput, request, behaviour) ==
  IF toolName \in {"function_execute"} \cup PrivilegedTools
    THEN IF behaviour \in {"throwsError", "throwsValue"}
           THEN Catch(toolName, behaviour)
           ELSE Returned(TRUE, ToolOutput, Undefined)
    ELSE CASE behaviour = "returns" -> Returned(TRUE, ToolOutput, Undefined)
           [] behaviour = "reportsFailure" -> Returned(FALSE, Undefined, ReportedError)
           [] OTHER -> Catch(toolName, behaviour)

\* ---------------------------------------------------------------- events
StartEvent(model, systemPrompt) ==
  [type |-> "start", model |-> model, provider |-> "anthropic", systemPrompt |-> systemPrompt]
ErrorEvent(message) ==
  [type |-> "error", message |-> message, displayMessage |-> DisplayMessage]
CapErrorEvent ==
  [type |-> "error", message |-> "Max tool execution iterations reached",
   displayMessage |-> "The conversation has reached the maximum number of tool executions."]
FinalDoneEvent(message) ==
  [type |-> "done", stopReason |-> message.stop_reason, usage |-> message.usage]
DoneEvent == [type |-> "done"]
ToolCallEvent(toolUse) ==
  [type |-> "tool_call", id |-> toolUse.id, name |-> toolUse.name,
   arguments |-> toolUse.input, partial |-> FALSE]
ToolResultEventAlwaysOk(toolUse, executionResult) ==
  [type |-> "tool_result", toolCallId |-> toolUse.id, toolName |-> toolUse.name,
   success |-> TRUE, result |-> executionResult.result, error |-> executionResult.error]
ToolResultEvent(toolUse, executionResult) ==
  [type |-> "tool_result", toolCallId |-> toolUse.id, toolName |-> toolUse.name,
   success |-> executionResult.success, result |-> executionResult.result,
   error |-> executionResult.error]

\* The reasoning and content events of the 'text' listener.  The end marker's
\* duration (a clock reading) is left out.
ReasoningStartEvent == [type |-> "reasoning", phase |-> "start"]
ReasoningDeltaEvent(text) == [type |-> "reasoning", phase |-> "delta", text |-> text]
ReasoningEndEvent == [type |-> "reasoning", phase |-> "end"]
ContentEvent(text) == [type |-> "content", text |-> text]

\* The block pushed to toolResults: JSON.stringify(result, null, 2) on success,
\* `Error: ${error}` otherwise.
ToolResultBlock(toolUse, executionResult) ==
  [type |-> "tool_result", tool_use_id |-> toolUse.id,
   content |-> IF executionResult.success
                 THEN <<"json", executionResult.result>>
                 ELSE <<"Error: ", executionResult.error>>]

\* ---------------------------------------------------------------- turns
UserTurn(message) == [role |-> "user", content |-> <<TextBlock(message)>>]
AssistantTurnToolsOnly(content) ==
  [role |-> "assistant", content |-> SelectSeq(content, LAMBDA c : c.type = "tool_use")]
AssistantTurn(content) == [role |-> "assistant", content |-> content]
ToolResultsTurnDropped(results) == [role |-> "user", content |-> <<>>]
ToolResultsTurn(results) == [role |-> "user", content |-> results]

\* ------------------------------------------------------------- provider
\* What the model may put in a tool_use block of this request.
PlainInput == [query |-> "email"]
SpoofedInput == Put(PlainInput, "_context", [workflowId |-> "wf-other", userId |-> "user-other"])
\* The tool_use block the provider puts at position k of a turn: a registry
\* tool, then a privileged tool, then a registry tool whose input carries a
\* _context of the model's making.
RequestedAt(k) ==
  CASE k % 3 = 1 -> [name |-> "search_documentation", input |-> PlainInput]
    [] k % 3 = 2 -> [name |-> "edit_workflow", input |-> PlainInput]
    [] OTHER -> [name |-> "search_documentation", input |-> SpoofedInput]

\* Call identifiers are unique within a request.
CallId(iteration, k) == iteration * (MaxBatch + 1) + k

\* Every tool_use block after the first of a turn is a departure from the plain run.
Cost(choices) == Len(choices) - 1

\* The tool requests the provider may make in one turn, within the budget.
TurnChoices(budget) ==
  { [k \in 1..n |-> RequestedAt(k)] : n \in { m \in 1..MaxBatch : m - 1 <= budget } }

\* The content of a completed turn that asks for tools: a text block followed
\* by the tool_use blocks.
ToolTurnContent(iteration, choices) ==
  <<TextBlock("let me use a tool")>> \o
    [i \in 1..Len(choices) |-> ToolUseBlock(CallId(iteration, i), choices[i].name, choices[i].input)]

Usage(messages, content) == [input_tokens |-> Len(messages), output_tokens |-> Len(content)]

NoMessage == [content |-> <<>>, stop_reason |-> "none", usage |-> [input_tokens |-> 0, output_tokens |-> 0]]

\* ----------------------------------------------------------------- state
VARIABLES
  request,               \* the LocalAgentRequest being handled
  pc,                    \* where start(controller) stands
  exit,                  \* which controller.close() ended the request
  iterationCount,
  continueLoop,
  conversationMessages,
  events,                \* what controller.enqueue has written, in order
  finalMessage,          \* the message stream.finalMessage() resolved with
  toolIdx,               \* tool_use blocks of the batch already handled
  toolResults,
  streamFailed,          \* the 'error' listener has run for the current stream
  providerCalls,         \* calls of client.messages.stream
  providerLog,           \* how each requested turn ended
  toolLog,               \* the tool invocations made, with their arguments
  outcomeLog,            \* what each finished tool call did
  deviations,            \* departures from the plain run so far
  dispatch,              \* one call of executeToolCall taken alone
  isInThinkingBlock,
  currentContentBlocks,  \* message.content of the last 'message' event of the turn
  streamed,              \* 'text' events delivered so far
  closedAt,              \* events written when controller.close() ran, -1 while open
  toolSet,               \* the tool lists of a request and what is sent of them
  norm,                  \* one schema taken through cleanJsonSchema, twice
  entry,                 \* handleLocalAgentRequest: provider, environment, prompt inputs
  cancelled,             \* the consumer has cancelled the ReadableStream
  pair                   \* two requests handled at once

vars == << request, pc, exit, iterationCount, continueLoop, conversationMessages, events,
           finalMessage, toolIdx, toolResults, streamFailed, providerCalls, providerLog,
           toolLog, outcomeLog, deviations, dispatch, isInThinkingBlock, currentContentBlocks,
           streamed, closedAt, toolSet, norm, entry, cancelled, pair >>

auxVars == << norm, entry, cancelled, pair >>
streamVars == << isInThinkingBlock, currentContentBlocks, streamed >>

NoNorm == [state |-> "idle", given |-> <<>>, once |-> <<>>, twice |-> <<>>, sent |-> <<>>]
NoPair == [state |-> "idle"]
\* ------------------------------------------------ handleLocalAgentRequest
DefaultModel == "claude-3-5-sonnet-20241022"

\* getAIClient(provider) under the environment's keys: the client type, or
\* the message of the Error it throws.
getAIClientNoKeyCheck(provider, anthropicKey, openaiKey) ==
  CASE provider \in {"anthropic", "claude"} -> [type |-> "anthropic", thrown |-> "none"]
    [] provider \in {"openai", "gpt"} -> [type |-> "openai", thrown |-> "none"]
    [] OTHER -> [type |-> "none", thrown |-> "Unsupported provider"]
getAIClient(provider, anthropicKey, openaiKey) ==
  CASE provider \in {"anthropic", "claude"} ->
         IF anthropicKey THEN [type |-> "anthropic", thrown |-> "none"]
         ELSE [type |-> "none", thrown |-> "ANTHROPIC_API_KEY not configured"]
    [] provider \in {"openai", "gpt"} ->
         IF openaiKey THEN [type |-> "openai", thrown |-> "none"]
         ELSE [type |-> "none", thrown |-> "OPENAI_API_KEY not configured"]
    [] OTHER -> [type |-> "none", thrown |-> "Unsupported provider"]

mapModelName(modelName, provider) ==
  CASE provider = "anthropic" ->
         ( CASE modelName = "claude-4.5-sonnet" -> "claude-sonnet-4-5-20250929"
             [] modelName = "claude-4.5-opus" -> "claude-opus-4-5-20251101"
             [] modelName = "claude-4.5-haiku" -> "claude-haiku-4-5-20251001"
             [] modelName = "claude-4-sonnet" -> "claude-sonnet-4-5-20250929"
             [] modelName = "claude-3.5-sonnet" -> "claude-3-5-sonnet-20241022"
             [] OTHER -> "claude-3-5-sonnet-20241022" )
    [] provider = "openai" ->
         ( CASE modelName = "gpt-4o" -> "gpt-4o"
             [] modelName \in {"gpt-4.1", "gpt-4"} -> "gpt-4-turbo"
             [] modelName = "gpt-3.5" -> "gpt-3.5-turbo"
             [] OTHER -> "gpt-4o" )
    [] OTHER -> modelName

\* A prompt is the list of its parts; <<>> is the empty (or absent) string.
buildSystemPromptMerging(userName, contexts, cachedPrompt) ==
  (IF cachedPrompt # <<>> THEN cachedPrompt
   ELSE <<"You are an AI assistant for Sim Studio">>
          \o (IF userName # "" THEN <<"The user's name is", userName>> ELSE <<>>)
          \o <<"workflow building rules">>)
    \o (IF contexts # <<>> THEN <<"## Additional Context">> \o contexts ELSE <<>>)
buildSystemPrompt(userName, contexts, cachedPrompt) ==
  IF cachedPrompt # <<>> THEN cachedPrompt
  ELSE <<"You are an AI assistant for Sim Studio">>
         \o (IF userName # "" THEN <<"The user's name is", userName>> ELSE <<>>)
         \o <<"workflow building rules">>
         \o (IF contexts # <<>> THEN <<"## Additional Context">> \o contexts ELSE <<>>)

\* What handleLocalAgentRequest reads of the request and of the environment.
ProviderChoices == {Undefined, "anthropic", "claude", "openai", "gpt", "mistral"}
ModelChoices == {Undefined, "claude-4.5-sonnet"}
CachedPrompts ==
  { <<>>, buildSystemPrompt("Bob", <<>>, <<>>), <<"a prompt cached earlier">> }
Calls ==
  [ state : {"called"},
    provider : ProviderChoices,
    model : ModelChoices,
    anthropicKey : BOOLEAN,
    openaiKey : BOOLEAN,
    userName : {"", "Ada"},
    context : {<<>>, <<"### workflow", "current workflow state">>},
    systemPromptCache : CachedPrompts,
    thrown : {"none"},
    mappedModel : {Undefined},
    systemPrompt : {<<>>} ]

\* handleLocalAgentRequest up to the construction of the stream.
Handled(call) ==
  LET provider == IF call.provider = Undefined THEN "anthropic" ELSE call.provider
      modelName == IF call.model = Undefined THEN DefaultModel ELSE call.model
      aiClient == getAIClient(provider, call.anthropicKey, call.openaiKey)
  IN  IF aiClient.thrown # "none"
        THEN [call EXCEPT !.state = "threw", !.thrown = aiClient.thrown]
      ELSE IF aiClient.type = "anthropic"
        THEN [call EXCEPT !.state = "streaming",
                          !.mappedModel = mapModelName(modelName, provider),
                          !.systemPrompt = buildSystemPrompt(call.userName, call.context,
                                                             call.systemPromptCache)]
      ELSE [call EXCEPT !.state = "threw", !.thrown = "OpenAI support not yet implemented"]

\* handleLocalAgentRequest has reached createAnthropicStream with the defaults.
Entered ==
  Handled([state |-> "called", provider |-> Undefined, model |-> Undefined,
           anthropicKey |-> TRUE, openaiKey |-> FALSE, userName |-> "", context |-> <<>>,
           systemPromptCache |-> <<>>, thrown |-> "none", mappedModel |-> Undefined,
           systemPrompt |-> <<>>])

NoToolSet == [state |-> "idle", baseTools |-> <<>>, tools |-> <<>>,
              toolsToConvert |-> <<>>, anthropicTools |-> <<>>]

NoDispatch ==
  [state |-> "idle", toolName |-> "none", given |-> EmptyObject, toolInput |-> EmptyObject,
   behaviour |-> "returns", args |-> EmptyObject, context |-> EmptyObject,
   result |-> Returned(FALSE, Undefined, Undefined)]

Init ==
  /\ request \in LoopRequests
  /\ pc = "start"
  /\ exit = "none"
  /\ iterationCount = 0
  /\ continueLoop = TRUE
  /\ conversationMessages = request.conversationHistory.turns
  /\ events = <<>>
  /\ finalMessage = NoMessage
  /\ toolIdx = 0
  /\ toolResults = <<>>
  /\ streamFailed = FALSE
  /\ providerCalls = 0
  /\ providerLog = <<>>
  /\ toolLog = <<>>
  /\ outcomeLog = <<>>
  /\ deviations = 0
  /\ dispatch = NoDispatch
  /\ isInThinkingBlock = FALSE
  /\ currentContentBlocks = <<>>
  /\ streamed = 0
  /\ closedAt = -1
  /\ norm = NoNorm
  /\ entry = Entered
  /\ cancelled = FALSE
  /\ pair = NoPair
  /\ toolSet = NoToolSet

\* while (continueLoop && iterationCount < maxIterations)
LoopGuardOffByOne == continueLoop /\ iterationCount <= maxIterations
LoopGuard == continueLoop /\ iterationCount < maxIterations

\* if (iterationCount >= maxIterations) after the loop
CapReachedOffByOne == iterationCount > maxIterations
CapReached == iterationCount >= maxIterations

\* controller.enqueue(...) goes through while the stream is readable; once
\* the consumer has cancelled the stream it throws a TypeError.
CanEnqueueAlways == TRUE
CanEnqueue == ~cancelled

\* What follows the loop, in order: the cap branch, then controller.close().
CloseOp == [type |-> "close"]
LoopExitOpsCloseFirst ==
  <<CloseOp>> \o (IF CapReached THEN <<CapErrorEvent, DoneEvent>> ELSE <<>>)
LoopExitOps ==
  (IF CapReached THEN <<CapErrorEvent, DoneEvent>> ELSE <<>>) \o <<CloseOp>>

\* The events a run of controller calls enqueues, and how many of them
\* before the close.
Written(ops) == SelectSeq(ops, LAMBDA o : o.type # "close")
WrittenBeforeClose(ops) ==
  Cardinality({ i \in 1..Len(ops) :
                  ops[i].type # "close" /\ \A j \in 1..i : ops[j].type # "close" })

\* The catch block of start(controller): error, done, close.
CatchBlock(message) == <<ErrorEvent(message), DoneEvent>>

\* The start event and the push of the user message.
StartDroppingHistory ==
  /\ pc = "start"
  /\ events' = Append(events, StartEvent(entry.mappedModel, entry.systemPrompt))
  /\ conversationMessages' = <<UserTurn(request.message)>>
  /\ pc' = "loop"
  /\ UNCHANGED << streamVars, closedAt, toolSet, auxVars, dispatch, request, exit, iterationCount, continueLoop, finalMessage, toolIdx, toolResults,
                  streamFailed, providerCalls, providerLog, toolLog, outcomeLog, deviations >>
StartSilent ==
  /\ pc = "start"
  /\ events' = events
  /\ conversationMessages' =
       Append(conversationMessages, UserTurn(request.message))
  /\ pc' = "loop"
  /\ UNCHANGED << streamVars, closedAt, toolSet, auxVars, dispatch, request, exit, iterationCount, continueLoop, finalMessage, toolIdx, toolResults,
                  streamFailed, providerCalls, providerLog, toolLog, outcomeLog, deviations >>
Start ==
  /\ pc = "start"
  /\ events' = Append(events, StartEvent(entry.mappedModel, entry.systemPrompt))
  /\ conversationMessages' =
       Append(conversationMessages, UserTurn(request.message))
  /\ pc' = "loop"
  /\ UNCHANGED << streamVars, closedAt, toolSet, auxVars, dispatch, request, exit, iterationCount, continueLoop, finalMessage, toolIdx, toolResults,
                  streamFailed, providerCalls, providerLog, toolLog, outcomeLog, deviations >>

\* One pass of the loop head: iterationCount++ and client.messages.stream(...).
RequestTurn ==
  /\ pc = "loop"
  /\ LoopGuard
  /\ iterationCount' = iterationCount + 1
  /\ providerCalls' = providerCalls + 1
  /\ streamFailed' = FALSE
  /\ pc' = "streaming"
  /\ isInThinkingBlock' = FALSE
  /\ currentContentBlocks' = <<>>
  /\ UNCHANGED << streamed, closedAt, toolSet, auxVars, dispatch, request, exit, continueLoop, conversationMessages, events, finalMessage, toolIdx,
                  toolResults, providerLog, toolLog, outcomeLog, deviations >>

\* finalMessage() resolves and the message holds tool_use blocks.
TurnWithTools ==
  /\ pc = "streaming"
  /\ ~streamFailed
  /\ \E choices \in TurnChoices(MaxDeviations - deviations) :
       LET content == ToolTurnContent(iterationCount, choices)
       IN  /\ finalMessage' = [content |-> content, stop_reason |-> "tool_use",
                               usage |-> Usage(conversationMessages, content)]
           /\ conversationMessages' =
                Append(conversationMessages, AssistantTurn(content))
           /\ deviations' = deviations + Cost(choices)
  /\ toolResults' = <<>>
  /\ toolIdx' = 0
  /\ providerLog' = Append(providerLog, [kind |-> "tool_use", content |-> finalMessage'.content,
                                          system |-> entry.systemPrompt])
  /\ pc' = "batch"
  /\ UNCHANGED << streamVars, closedAt, toolSet, auxVars, dispatch, request, exit, iterationCount, continueLoop, events, streamFailed,
                  providerCalls, toolLog, outcomeLog >>

\* finalMessage() resolves and the message holds no tool_use block.
TurnWithoutToolsAppending ==
  /\ pc = "streaming"
  /\ ~streamFailed
  /\ CanEnqueue
  /\ \E stopReason \in {"end_turn", "max_tokens"} :
       LET content == <<TextBlock("final answer")>>
           message == [content |-> content, stop_reason |-> stopReason,
                       usage |-> Usage(conversationMessages, content)]
       IN  /\ finalMessage' = message
           /\ events' = Append(events, FinalDoneEvent(message))
  /\ continueLoop' = FALSE
  /\ conversationMessages' = Append(conversationMessages, AssistantTurn(finalMessage'.content))
  /\ providerLog' = Append(providerLog, [kind |-> "final", content |-> finalMessage'.content,
                                          system |-> entry.systemPrompt])
  /\ pc' = "loop"
  /\ UNCHANGED << streamVars, closedAt, toolSet, auxVars, dispatch, request, exit, iterationCount, toolIdx, toolResults,
                  streamFailed, providerCalls, toolLog, outcomeLog, deviations >>
TurnWithoutTools ==
  /\ pc = "streaming"
  /\ ~streamFailed
  /\ CanEnqueue
  /\ \E stopReason \in {"end_turn", "max_tokens"} :
       LET content == <<TextBlock("final answer")>>
           message == [content |-> content, stop_reason |-> stopReason,
                       usage |-> Usage(conversationMessages, content)]
       IN  /\ finalMessage' = message
           /\ events' = Append(events, FinalDoneEvent(message))
  /\ continueLoop' = FALSE
  /\ providerLog' = Append(providerLog, [kind |-> "final", content |-> finalMessage'.content,
                                          system |-> entry.systemPrompt])
  /\ pc' = "loop"
  /\ UNCHANGED << streamVars, closedAt, toolSet, auxVars, dispatch, request, exit, iterationCount, conversationMessages, toolIdx, toolResults,
                  streamFailed, providerCalls, toolLog, outcomeLog, deviations >>

\* stream.on('error', ...)
StreamError ==
  /\ pc = "streaming"
  /\ ~streamFailed
  /\ IF CanEnqueue
       THEN /\ events' = Append(events, ErrorEvent("transport failure"))
            /\ continueLoop' = FALSE
       ELSE UNCHANGED << events, continueLoop >>
  /\ streamFailed' = TRUE
  /\ providerLog' = Append(providerLog, [kind |-> "error", content |-> <<>>,
                                          system |-> entry.systemPrompt])
  /\ UNCHANGED << streamVars, closedAt, toolSet, auxVars, dispatch, request, pc, exit, iterationCount, conversationMessages, finalMessage, toolIdx,
                  toolResults, providerCalls, toolLog, outcomeLog, deviations >>

\* await stream.finalMessage() rejects: control passes to the catch block.
FinalMessageRejected ==
  /\ pc = "streaming"
  /\ streamFailed
  /\ CanEnqueue
  /\ events' = events \o CatchBlock("transport failure")
  /\ closedAt' = Len(events')
  /\ pc' = "closed"
  /\ exit' = "catch"
  /\ UNCHANGED << streamVars, toolSet, auxVars, dispatch, request, iterationCount, continueLoop, conversationMessages, finalMessage,
                  toolIdx, toolResults, streamFailed, providerCalls, providerLog, toolLog,
                  outcomeLog, deviations >>

\* The tool_use block the for loop is at.
CurrentToolUse == ToolUseBlocks(finalMessage.content)[toolIdx + 1]

\* The head of the for loop body: the tool_call event and the call of
\* executeToolCall, which writes to the input object before it awaits the tool.
StartToolCall ==
  /\ pc = "batch"
  /\ CanEnqueue
  /\ toolIdx < Len(ToolUseBlocks(finalMessage.content))
  /\ LET toolUse == CurrentToolUse
         pos == PositionOf(finalMessage.content, toolIdx + 1, 1)
         after == ToolInputAfter(toolUse.name, toolUse.input, request)
     IN  /\ events' = Append(events, ToolCallEvent(toolUse))
         /\ finalMessage' = [finalMessage EXCEPT !.content[pos].input = after]
         /\ conversationMessages' =
              [conversationMessages EXCEPT ![Len(conversationMessages)].content[pos].input = after]
         /\ toolLog' = Append(toolLog, [id |-> toolUse.id, name |-> toolUse.name,
                                        args |-> ToolArgs(toolUse.name, toolUse.input, request)])
  /\ pc' = "tool"
  /\ UNCHANGED << streamVars, closedAt, toolSet, auxVars, dispatch, request, exit, iterationCount, continueLoop, toolIdx, toolResults, streamFailed,
                  providerCalls, providerLog, outcomeLog, deviations >>

\* executeToolCall settles: the tool_result event, the push to toolResults and,
\* after the last block of the batch, the push of the tool-results turn.
FinishToolCall ==
  /\ pc = "tool"
  /\ CanEnqueue
  /\ \E behaviour \in Behaviours \ {"throwsValue"} :
       LET toolUse == CurrentToolUse
           executionResult == executeToolCall(toolUse.name, toolUse.input, request, behaviour)
           failed == Failing(toolUse.name, behaviour)
           results == Append(toolResults, ToolResultBlock(toolUse, executionResult))
           last == toolIdx + 1 = Len(ToolUseBlocks(finalMessage.content))
       IN  /\ failed => deviations < MaxDeviations
           /\ deviations' = IF failed THEN deviations + 1 ELSE deviations
           /\ outcomeLog' = Append(outcomeLog, [id |-> toolUse.id, failed |-> failed])
           /\ IF executionResult.threw
                THEN /\ events' = events \o CatchBlock(executionResult.error)
                     /\ closedAt' = Len(events')
                     /\ pc' = "closed"
                     /\ exit' = "catch"
                     /\ UNCHANGED << toolIdx, toolResults, conversationMessages >>
                ELSE /\ events' = Append(events, ToolResultEvent(toolUse, executionResult))
                     /\ toolResults' = results
                     /\ toolIdx' = toolIdx + 1
                     /\ conversationMessages' =
                          IF last
                            THEN Append(conversationMessages, ToolResultsTurn(results))
                            ELSE conversationMessages
                     /\ pc' = IF last THEN "loop" ELSE "batch"
                     /\ exit' = exit
                     /\ closedAt' = closedAt
  /\ UNCHANGED << streamVars, toolSet, auxVars, dispatch, request, iterationCount, continueLoop, finalMessage, streamFailed,
                  providerCalls, providerLog, toolLog >>

\* The loop has ended: the cap check, then controller.close().
ExitLoopNoClose ==
  /\ pc = "loop"
  /\ ~LoopGuard
  /\ CanEnqueue
  /\ events' = events \o Written(LoopExitOps)
  /\ exit' = IF CapReached THEN "cap" ELSE "loop"
  /\ pc' = "returned"
  /\ UNCHANGED << streamVars, closedAt, toolSet, auxVars, dispatch, request, iterationCount, continueLoop, conversationMessages, finalMessage,
                  toolIdx, toolResults, streamFailed, providerCalls, providerLog, toolLog,
                  outcomeLog, deviations >>
ExitLoop ==
  /\ pc = "loop"
  /\ ~LoopGuard
  /\ CanEnqueue
  /\ events' = events \o Written(LoopExitOps)
  /\ closedAt' = Len(events) + WrittenBeforeClose(LoopExitOps)
  /\ exit' = IF CapReached THEN "cap" ELSE "loop"
  /\ pc' = "closed"
  /\ UNCHANGED << streamVars, toolSet, auxVars, dispatch, request, iterationCount, continueLoop, conversationMessages, finalMessage,
                  toolIdx, toolResults, streamFailed, providerCalls, providerLog, toolLog,
                  outcomeLog, deviations >>

Next ==
  \/ Start
  \/ RequestTurn
  \/ TurnWithTools
  \/ TurnWithoutTools
  \/ StreamError
  \/ FinalMessageRejected
  \/ StartToolCall
  \/ FinishToolCall
  \/ ExitLoop

Spec == Init /\ [][Next]_vars

\* start(controller) is one chain of awaits: once the promise it waits for
\* settles, the event loop runs its continuation.  With every provider stream
\* and every tool settling, the step that is enabled is taken.
SpecLive == Init /\ [][Next]_vars /\ WF_vars(Next)

\* ------------------------------------------------ the consumer goes away
\* The stream is cancelled while start(controller) is suspended: awaiting the
\* provider stream or awaiting a tool.
Disconnect ==
  /\ pc \in {"streaming", "tool"}
  /\ ~cancelled
  /\ cancelled' = TRUE
  /\ UNCHANGED << request, pc, exit, iterationCount, continueLoop, conversationMessages, events,
                  finalMessage, toolIdx, toolResults, streamFailed, providerCalls, providerLog,
                  toolLog, outcomeLog, deviations, dispatch, streamVars, closedAt, toolSet,
                  norm, entry, pair >>

\* The next controller.enqueue throws inside the try block, and the one of the
\* catch block throws again: start(controller) rejects with nothing written.
\* The enqueue is that of the done event of a final turn, of the catch block
\* after a stream failure, of a tool_call event, or of the tool_result event
\* of a tool that has settled.
EnqueueThrows ==
  /\ ~CanEnqueue
  /\ \/ /\ pc = "streaming"
        /\ UNCHANGED << outcomeLog >>
     \/ /\ pc = "batch"
        /\ toolIdx < Len(ToolUseBlocks(finalMessage.content))
        /\ UNCHANGED << outcomeLog >>
     \/ /\ pc = "tool"
        /\ outcomeLog' = Append(outcomeLog, [id |-> CurrentToolUse.id, failed |-> FALSE])
  /\ pc' = "aborted"
  /\ exit' = "aborted"
  /\ UNCHANGED << request, iterationCount, continueLoop, conversationMessages, events,
                  finalMessage, toolIdx, toolResults, streamFailed, providerCalls, providerLog,
                  toolLog, deviations, dispatch, streamVars, closedAt, toolSet, auxVars >>

NextCancel ==
  \/ Next
  \/ Disconnect
  \/ EnqueueThrows

SpecCancel == Init /\ [][NextCancel]_vars

\* ------------------------------------- a tool result JSON cannot carry
\* function_execute returns whatever the evaluated code returns; a BigInt is
\* a value JSON.stringify throws on.
EvalInput == [code |-> "return 10n"]
StringifyError == "Do not know how to serialize a BigInt"

\* finalMessage() resolves with one tool_use block for function_execute.
TurnWithEval ==
  /\ pc = "streaming"
  /\ ~streamFailed
  /\ LET content == <<TextBlock("running code"),
                      ToolUseBlock(CallId(iterationCount, 1), "function_execute", EvalInput)>>
     IN  /\ finalMessage' = [content |-> content, stop_reason |-> "tool_use",
                             usage |-> Usage(conversationMessages, content)]
         /\ conversationMessages' = Append(conversationMessages, AssistantTurn(content))
  /\ toolResults' = <<>>
  /\ toolIdx' = 0
  /\ providerLog' = Append(providerLog, [kind |-> "tool_use", content |-> finalMessage'.content,
                                          system |-> entry.systemPrompt])
  /\ pc' = "batch"
  /\ UNCHANGED << streamVars, closedAt, toolSet, auxVars, dispatch, request, exit, iterationCount,
                  continueLoop, events, streamFailed, providerCalls, toolLog, outcomeLog,
                  deviations >>

\* executeToolCall returns {success: true, result: 10n}; JSON.stringify of the
\* tool_result event throws and control passes to the catch block.
StringifyThrows ==
  /\ pc = "tool"
  /\ CanEnqueue
  /\ CurrentToolUse.name = "function_execute"
  /\ CurrentToolUse.input = EvalInput
  /\ outcomeLog' = Append(outcomeLog, [id |-> CurrentToolUse.id, failed |-> FALSE])
  /\ events' = events \o CatchBlock(StringifyError)
  /\ closedAt' = Len(events')
  /\ pc' = "closed"
  /\ exit' = "catch"
  /\ UNCHANGED << streamVars, toolSet, auxVars, dispatch, request, iterationCount, continueLoop,
                  conversationMessages, finalMessage, toolIdx, toolResults, streamFailed,
                  providerCalls, providerLog, toolLog, deviations >>

NextEval ==
  \/ Next
  \/ TurnWithEval
  \/ StringifyThrows

\* ---------------------------------------- the loop behind its entry point
HandleRequest ==
  /\ pc = "entry"
  /\ entry.state = "called"
  /\ entry' = Handled(entry)
  /\ pc' = IF entry'.state = "streaming" THEN "start" ELSE "threw"
  /\ UNCHANGED << request, exit, iterationCount, continueLoop, conversationMessages, events,
                  finalMessage, toolIdx, toolResults, streamFailed, providerCalls, providerLog,
                  toolLog, outcomeLog, deviations, dispatch, streamVars, closedAt, toolSet,
                  norm, cancelled, pair >>

\* Plain turns only (one tool_use block, no failing tool).
InitEntry ==
  /\ request \in LoopRequests
  /\ pc = "entry"
  /\ exit = "none"
  /\ iterationCount = 0
  /\ continueLoop = TRUE
  /\ conversationMessages = request.conversationHistory.turns
  /\ events = <<>>
  /\ finalMessage = NoMessage
  /\ toolIdx = 0
  /\ toolResults = <<>>
  /\ streamFailed = FALSE
  /\ providerCalls = 0
  /\ providerLog = <<>>
  /\ toolLog = <<>>
  /\ outcomeLog = <<>>
  /\ deviations = MaxDeviations
  /\ dispatch = NoDispatch
  /\ isInThinkingBlock = FALSE
  /\ currentContentBlocks = <<>>
  /\ streamed = 0
  /\ closedAt = -1
  /\ toolSet = NoToolSet
  /\ norm = NoNorm
  /\ cancelled = FALSE
  /\ pair = NoPair
  /\ entry \in Calls

NextEntry ==
  \/ HandleRequest
  \/ Next

SpecEntry == InitEntry /\ [][NextEntry]_vars

\* ------------------------------------------------- the stream listeners
\* The provider client is outside the repository: its 'message' and 'text'
\* events are taken to arrive in any order while the turn is streaming.
ThinkingBlock == [type |-> "thinking"]
MessageSnapshots ==
  { <<ThinkingBlock>>, <<ThinkingBlock, TextBlock("partial answer")>> }

\* currentContentBlocks[currentContentBlocks.length - 1]?.type
LastBlockType(blocks) == IF blocks = <<>> THEN Undefined ELSE blocks[Len(blocks)].type

\* stream.on('text', ...): the events it enqueues and the flag it leaves.
TextListenerNoFlag(inBlock, blocks, text) ==
  IF LastBlockType(blocks) = "thinking"
    THEN [events |-> <<ReasoningStartEvent, ReasoningDeltaEvent(text)>>, inBlock |-> TRUE]
    ELSE [events |-> <<ReasoningEndEvent, ContentEvent(text)>>, inBlock |-> FALSE]
TextListener(inBlock, blocks, text) ==
  IF LastBlockType(blocks) = "thinking"
    THEN [events |-> (IF inBlock THEN <<>> ELSE <<ReasoningStartEvent>>)
                       \o <<ReasoningDeltaEvent(text)>>,
          inBlock |-> TRUE]
    ELSE [events |-> (IF inBlock THEN <<ReasoningEndEvent>> ELSE <<>>)
                       \o <<ContentEvent(text)>>,
          inBlock |-> FALSE]

\* stream.on('message', ...)
OnMessage ==
  /\ pc = "streaming"
  /\ ~streamFailed
  /\ streamed < MaxStreamed
  /\ \E content \in MessageSnapshots :
       /\ content # currentContentBlocks
       /\ currentContentBlocks' = content
  /\ UNCHANGED << request, pc, exit, iterationCount, continueLoop, conversationMessages, events,
                  finalMessage, toolIdx, toolResults, streamFailed, providerCalls, providerLog,
                  toolLog, outcomeLog, deviations, dispatch, isInThinkingBlock, streamed,
                  closedAt, toolSet, auxVars >>

\* stream.on('text', ...)
OnText ==
  /\ pc = "streaming"
  /\ ~streamFailed
  /\ CanEnqueue
  /\ streamed < MaxStreamed
  /\ LET heard == TextListener(isInThinkingBlock, currentContentBlocks, "token")
     IN  /\ events' = events \o heard.events
         /\ isInThinkingBlock' = heard.inBlock
  /\ streamed' = streamed + 1
  /\ UNCHANGED << request, pc, exit, iterationCount, continueLoop, conversationMessages,
                  finalMessage, toolIdx, toolResults, streamFailed, providerCalls, providerLog,
                  toolLog, outcomeLog, deviations, dispatch, currentContentBlocks,
                  closedAt, toolSet, auxVars >>

\* The loop on plain turns (one tool_use block, no failing tool) with the
\* stream listeners.
InitStream ==
  /\ request \in LoopRequests
  /\ pc = "start"
  /\ exit = "none"
  /\ iterationCount = 0
  /\ continueLoop = TRUE
  /\ conversationMessages = request.conversationHistory.turns
  /\ events = <<>>
  /\ finalMessage = NoMessage
  /\ toolIdx = 0
  /\ toolResults = <<>>
  /\ streamFailed = FALSE
  /\ providerCalls = 0
  /\ providerLog = <<>>
  /\ toolLog = <<>>
  /\ outcomeLog = <<>>
  /\ deviations = MaxDeviations
  /\ dispatch = NoDispatch
  /\ isInThinkingBlock = FALSE
  /\ currentContentBlocks = <<>>
  /\ streamed = 0
  /\ closedAt = -1
  /\ norm = NoNorm
  /\ entry = Entered
  /\ cancelled = FALSE
  /\ pair = NoPair
  /\ toolSet = NoToolSet

NextStream ==
  \/ Next
  \/ OnMessage
  \/ OnText

SpecStream == InitStream /\ [][NextStream]_vars

\* The loop on plain turns and on turns that run code.
SpecEval == InitStream /\ [][NextEval]_vars

\* ------------------------------------------------------- cleanJsonSchema
\* JSON values carry their JavaScript type: kind is what typeof and
\* Array.isArray tell apart, val is the value.  An object is a function from
\* its keys; a key that is absent reads as undefined.
Str(text) == [kind |-> "string", val |-> text]
Num(n) == [kind |-> "number", val |-> n]
Null == [kind |-> "null", val |-> "null"]
Absent == [kind |-> "undefined", val |-> "undefined"]
Arr(elements) == [kind |-> "array", val |-> elements]
Obj(entries) == [kind |-> "object", val |-> entries]
\* The TypeError of Object.keys(null), in place of a returned value.
Thrown == [kind |-> "thrown", val |-> "TypeError"]

Truthy(v) ==
  CASE v.kind \in {"null", "undefined"} -> FALSE
    [] v.kind = "string" -> v.val # ""
    [] v.kind = "number" -> v.val # 0
    [] OTHER -> TRUE

Remove(entries, k) == [x \in (DOMAIN entries) \ {k} |-> entries[x]]
Restrict(entries, keys) == [x \in (DOMAIN entries) \cap keys |-> entries[x]]
Has(entries, k) == k \in DOMAIN entries

allowedTopLevelProps ==
  { "type", "properties", "required", "items", "description", "enum", "const", "default",
    "minimum", "maximum", "minLength", "maxLength", "pattern", "format", "minItems",
    "maxItems", "uniqueItems", "additionalProperties", "anyOf", "oneOf", "allOf", "not",
    "$ref", "title" }
validTypes == {"string", "number", "integer", "boolean", "object", "array", "null"}

\* new RegExp(p) succeeds, and p.replace(/\\(?![\\\/bfnrt"'])/g, '\\\\'), on
\* the patterns the schemas below use: a sound one, one ending in a lone
\* backslash, an unbalanced one.
PatternChoices == {"^[a-z]+$", "abc\\", "(", "[a-z", "(\\d"}
ValidRegExp(p) == p \in {"^[a-z]+$", "abc\\\\"}
EscapeBackslashes(p) ==
  CASE p = "abc\\" -> "abc\\\\"
    [] p = "(\\d" -> "(\\\\d"
    [] OTHER -> p

\* The last forEach of cleanJsonSchema on one key.  Object.keys(value) is
\* reached with value null for every key but properties and default.
FinalPassThrows(entries) ==
  \E k \in DOMAIN entries : entries[k].kind = "null" /\ k \notin {"properties", "default"}
FinalPassDeletes(k, value) ==
  \/ value.kind \in {"null", "undefined"}
  \/ value = Str("")
  \/ /\ k \notin {"properties", "default"}
     /\ \/ value.kind = "object" /\ DOMAIN value.val = {}
        \/ value.kind = "array" /\ value.val = <<>> /\ k # "enum"
FinalPass(entries) ==
  [k \in { x \in DOMAIN entries : ~FinalPassDeletes(x, entries[x]) } |-> entries[k]]

\* The type step, lines 780-796.
EnsureType(cleaned) ==
  IF Has(cleaned, "type")
    THEN IF cleaned["type"].kind = "string"
           THEN IF cleaned["type"].val \notin validTypes
                  THEN Put(cleaned, "type", Str("string"))
                  ELSE cleaned
           ELSE IF cleaned["type"] = Str("")
                  THEN Put(cleaned, "type", Str("object"))
                  ELSE cleaned
    ELSE Put(cleaned, "type", Str("object"))

\* The required step, lines 828-841.
EnsureRequired(cleaned) ==
  IF Has(cleaned, "required") /\ Truthy(cleaned["required"])
    THEN IF cleaned["required"].kind # "array"
           THEN Remove(cleaned, "required")
           ELSE LET kept == SelectSeq(cleaned["required"].val,
                                      LAMBDA item : item.kind = "string" /\ item.val # "")
                IN  IF kept = <<>> THEN Remove(cleaned, "required")
                    ELSE Put(cleaned, "required", Arr(kept))
    ELSE cleaned

\* The pattern step, lines 855-875.
FixPatternForwarding(cleaned) == cleaned
FixPattern(cleaned) ==
  IF Has(cleaned, "pattern") /\ Truthy(cleaned["pattern"]) /\ cleaned["pattern"].kind = "string"
    THEN IF ValidRegExp(cleaned["pattern"].val) THEN cleaned
         ELSE LET fixedPattern == EscapeBackslashes(cleaned["pattern"].val)
              IN  IF ValidRegExp(fixedPattern)
                    THEN Put(cleaned, "pattern", Str(fixedPattern))
                    ELSE Remove(cleaned, "pattern")
    ELSE cleaned

\* An entry of Object.entries(array) has the index as its key.
IndexKeys(elements) == { ToString(i - 1) : i \in 1..Len(elements) }
AtIndexKey(elements, k) == elements[CHOOSE i \in 1..Len(elements) : ToString(i - 1) = k]

RECURSIVE cleanJsonSchema(_)

\* { ...schema }, delete cleaned.$schema, the allowed-key filter, lines 736-778.
Copied(schema) ==
  IF schema.kind = "array"
    THEN [k \in IndexKeys(schema.val) |-> AtIndexKey(schema.val, k)]
    ELSE schema.val
Filtered(spread) == Restrict(Remove(spread, "$schema"), allowedTopLevelProps)

\* properties, lines 805-812.
CleanProperties(cleaned) ==
  IF Has(cleaned, "properties") /\ cleaned["properties"].kind \in {"object", "array"}
    THEN LET given == cleaned["properties"]
         IN  Put(cleaned, "properties",
                 IF given.kind = "array"
                   THEN Obj([k \in IndexKeys(given.val) |->
                               cleanJsonSchema(AtIndexKey(given.val, k))])
                   ELSE Obj([k \in DOMAIN given.val |-> cleanJsonSchema(given.val[k])]))
    ELSE cleaned

\* items, lines 815-826.
AllowItems(cleaned) ==
  IF Has(cleaned, "items") /\ Truthy(cleaned["items"]) /\ cleaned["type"] # Str("array")
    THEN Remove(cleaned, "items")
    ELSE cleaned
CleanItems(cleaned) ==
  IF Has(cleaned, "items") /\ Truthy(cleaned["items"])
    THEN Put(cleaned, "items",
             IF cleaned["items"].kind = "array"
               THEN Arr([e \in 1..Len(cleaned["items"].val) |->
                           cleanJsonSchema(cleaned["items"].val[e])])
               ELSE cleanJsonSchema(cleaned["items"]))
    ELSE cleaned

\* anyOf, oneOf, allOf, lines 844-848.
CleanCombinators(cleaned) ==
  [k \in DOMAIN cleaned |->
     IF k \in {"anyOf", "oneOf", "allOf"} /\ cleaned[k].kind = "array"
       THEN Arr([e \in 1..Len(cleaned[k].val) |-> cleanJsonSchema(cleaned[k].val[e])])
       ELSE cleaned[k]]

\* not, lines 851-853.
CleanNot(cleaned) ==
  IF Has(cleaned, "not") /\ Truthy(cleaned["not"])
    THEN Put(cleaned, "not", cleanJsonSchema(cleaned["not"]))
    ELSE cleaned

\* A nested call has thrown.
NestedThrew(cleaned) ==
  \E k \in DOMAIN cleaned :
    \/ cleaned[k] = Thrown
    \/ /\ cleaned[k].kind = "array"
       /\ \E i \in 1..Len(cleaned[k].val) : cleaned[k].val[i] = Thrown
    \/ /\ k = "properties" /\ cleaned[k].kind = "object"
       /\ \E name \in DOMAIN cleaned[k].val : cleaned[k].val[name] = Thrown

\* The last forEach and the return, lines 878-894.
Finish(cleaned) ==
  IF NestedThrew(cleaned) \/ FinalPassThrows(cleaned)
    THEN Thrown
    ELSE Obj(FinalPass(cleaned))

cleanJsonSchema(schema) ==
  IF ~Truthy(schema) \/ schema.kind \notin {"object", "array"} THEN schema
  ELSE Finish(FixPattern(CleanNot(CleanCombinators(EnsureRequired(CleanItems(AllowItems(
         CleanProperties(Remove(EnsureType(Filtered(Copied(schema))), "nullable")))))))))

\* ------------------------------------------- the tools sent to the provider
\* Names and descriptions are token lists; <<>> is the empty string.  The
\* input_schema of a tool goes through cleanJsonSchema and is left out here.
ToolCounts == (0..MaxFew) \cup {MAX_TOOLS - 1, MAX_TOOLS, MAX_TOOLS + 1}
NamePatterns == {"distinct", "repeated", "shadowing"}

ToolName(origin, i, pattern) ==
  CASE pattern = "distinct" -> <<origin, i>>
    [] pattern = "repeated" -> <<origin, (i + 1) \div 2>>
    [] OTHER -> <<"base", i>>
Described(origin, i) == IF i % 4 = 0 THEN <<>> ELSE <<origin, "tool", i>>
\* tool.input_schema as the caller gave it: missing, null, {}, or a schema.
Declared(origin, i) ==
  CASE i % 5 = 0 -> Absent
    [] i % 5 = 1 -> Null
    [] i % 5 = 2 -> Obj(EmptyObject)
    [] i % 5 = 3 -> Obj([properties |-> Obj([query |-> Obj([type |-> Str("text")])]),
                         required |-> Arr(<<Str("query"), Str("")>>)])
    [] OTHER -> Obj([type |-> Str("object"), title |-> Str(origin)])
ToolList(origin, n, pattern) ==
  [i \in 1..n |-> [name |-> ToolName(origin, i, pattern),
                    description |-> Described(origin, i),
                    input_schema |-> Declared(origin, i)]]

\* array.slice(0, n)
Slice(seq, n) == IF n <= 0 THEN <<>> ELSE SubSeq(seq, 1, IF n < Len(seq) THEN n ELSE Len(seq))

\* toolsToConvert of createAnthropicStream.
LimitToolsKeepAllBase(baseTools, tools) ==
  IF Len(baseTools \o tools) > MAX_TOOLS
    THEN IF MAX_TOOLS - Len(baseTools) > 0
           THEN baseTools \o Slice(tools, MAX_TOOLS - Len(baseTools))
           ELSE baseTools
    ELSE baseTools \o tools
LimitToolsOffByOne(baseTools, tools) ==
  IF Len(baseTools \o tools) > MAX_TOOLS
    THEN IF MAX_TOOLS - Len(baseTools) > 0
           THEN baseTools \o Slice(tools, MAX_TOOLS - Len(baseTools) - 1)
           ELSE Slice(baseTools, MAX_TOOLS)
    ELSE baseTools \o tools
LimitToolsAdHocFirst(baseTools, tools) ==
  IF Len(baseTools \o tools) > MAX_TOOLS
    THEN Slice(tools \o baseTools, MAX_TOOLS)
    ELSE baseTools \o tools
LimitTools(baseTools, tools) ==
  LET allTools == baseTools \o tools
      baseToolsCount == Len(baseTools)
      remainingSlots == MAX_TOOLS - baseToolsCount
  IN  IF Len(allTools) > MAX_TOOLS
        THEN IF remainingSlots > 0
               THEN baseTools \o Slice(tools, remainingSlots)
               ELSE Slice(baseTools, MAX_TOOLS)
        ELSE allTools

\* The schema of one tool, lines 674-696: the default for a missing or empty
\* one, cleanJsonSchema, and the type when the cleaned schema has none.  The
\* module is strict code: setting .type on a string or a number throws.
DefaultSchema == Obj([type |-> Str("object"), properties |-> Obj(EmptyObject)])
InputSchemaKeepEmpty(rawSchema) ==
  LET cleanedSchema == cleanJsonSchema(IF ~Truthy(rawSchema) THEN DefaultSchema ELSE rawSchema)
  IN  CASE cleanedSchema.kind = "thrown" -> Thrown
        [] cleanedSchema.kind # "object" -> Thrown
        [] Has(cleanedSchema.val, "type") /\ Truthy(cleanedSchema.val["type"]) -> cleanedSchema
        [] OTHER -> Obj(Put(cleanedSchema.val, "type", Str("object")))
InputSchema(rawSchema) ==
  LET inputSchema ==
        IF \/ ~Truthy(rawSchema)
           \/ rawSchema.kind = "object" /\ DOMAIN rawSchema.val = {}
           \/ rawSchema.kind = "array" /\ rawSchema.val = <<>>
          THEN DefaultSchema
          ELSE rawSchema
      cleanedSchema == cleanJsonSchema(inputSchema)
  IN  CASE cleanedSchema.kind = "thrown" -> Thrown
        [] cleanedSchema.kind # "object" -> Thrown
        [] Has(cleanedSchema.val, "type") /\ Truthy(cleanedSchema.val["type"]) -> cleanedSchema
        [] OTHER -> Obj(Put(cleanedSchema.val, "type", Str("object")))

\* The object tools.map(...) returns for one tool.
ConvertedTool(tool) ==
  [name |-> tool.name,
   description |-> IF tool.description = <<>> THEN tool.name ELSE tool.description,
   input_schema |-> InputSchema(tool.input_schema)]

\* The Map of convertToolsToAnthropic read back in insertion order: a key is
\* inserted at the first tool of its name (lines 712-714) and keeps that place.
Inserted(convertedTools) ==
  { i \in 1..Len(convertedTools) :
      \A j \in 1..(i - 1) : convertedTools[j].name # convertedTools[i].name }
Ordered(indices) ==
  [k \in 1..Cardinality(indices) |->
     CHOOSE i \in indices : Cardinality({ j \in indices : j <= i }) = k]
UniqueToolsLastWins(convertedTools) ==
  LET at == Ordered(Inserted(convertedTools))
  IN  [k \in 1..Len(at) |->
         convertedTools[CHOOSE i \in 1..Len(convertedTools) :
                          /\ convertedTools[i].name = convertedTools[at[k]].name
                          /\ \A j \in (i + 1)..Len(convertedTools) :
                               convertedTools[j].name # convertedTools[i].name]]
UniqueTools(convertedTools) ==
  LET at == Ordered(Inserted(convertedTools))
  IN  [k \in 1..Len(at) |-> convertedTools[at[k]]]

\* An exception of tools.map leaves convertToolsToAnthropic with no value.
convertToolsToAnthropic(tools) ==
  IF \E i \in 1..Len(tools) : InputSchema(tools[i].input_schema) = Thrown
    THEN Thrown
    ELSE UniqueTools([i \in 1..Len(tools) |-> ConvertedTool(tools[i])])

InitTools ==
  /\ request \in LoopRequests
  /\ pc = "tools"
  /\ exit = "none"
  /\ iterationCount = 0
  /\ continueLoop = TRUE
  /\ conversationMessages = <<>>
  /\ events = <<>>
  /\ finalMessage = NoMessage
  /\ toolIdx = 0
  /\ toolResults = <<>>
  /\ streamFailed = FALSE
  /\ providerCalls = 0
  /\ providerLog = <<>>
  /\ toolLog = <<>>
  /\ outcomeLog = <<>>
  /\ deviations = 0
  /\ dispatch = NoDispatch
  /\ isInThinkingBlock = FALSE
  /\ currentContentBlocks = <<>>
  /\ streamed = 0
  /\ closedAt = -1
  /\ norm = NoNorm
  /\ entry = Entered
  /\ cancelled = FALSE
  /\ pair = NoPair
  /\ \E b \in ToolCounts, t \in ToolCounts, pattern \in NamePatterns :
       toolSet = [state |-> "given",
                  baseTools |-> ToolList("base", b, pattern),
                  tools |-> ToolList("adhoc", t, pattern),
                  toolsToConvert |-> <<>>, anthropicTools |-> <<>>]

\* The cap on the combined list.
LimitStep ==
  /\ pc = "tools"
  /\ toolSet.state = "given"
  /\ toolSet' = [toolSet EXCEPT !.state = "limited",
                    !.toolsToConvert = LimitTools(toolSet.baseTools, toolSet.tools)]
  /\ UNCHANGED << request, pc, exit, iterationCount, continueLoop, conversationMessages, events,
                  finalMessage, toolIdx, toolResults, streamFailed, providerCalls, providerLog,
                  toolLog, outcomeLog, deviations, dispatch, streamVars, closedAt, auxVars >>

\* const anthropicTools = convertToolsToAnthropic(toolsToConvert)
ConvertStep ==
  /\ pc = "tools"
  /\ toolSet.state = "limited"
  /\ toolSet' = [toolSet EXCEPT !.state = "converted",
                    !.anthropicTools = convertToolsToAnthropic(toolSet.toolsToConvert)]
  /\ UNCHANGED << request, pc, exit, iterationCount, continueLoop, conversationMessages, events,
                  finalMessage, toolIdx, toolResults, streamFailed, providerCalls, providerLog,
                  toolLog, outcomeLog, deviations, dispatch, streamVars, closedAt, auxVars >>

NextTools ==
  \/ LimitStep
  \/ ConvertStep

SpecTools == InitTools /\ [][NextTools]_vars

\* --------------------------------------------------- two requests at once
\* Each call of createAnthropicStream has its own locals (iterationCount,
\* continueLoop, anthropicTools, the controller); conversationMessages is a
\* reference to the array the caller passed, or to a fresh one when the caller
\* passed none.  The heap holds the arrays; two requests may name the same one.
\* A tool call is taken as one step; own and arrival record what an instance
\* itself appended and what its array held when it was called.
Instances == {1, 2}
Arrays == {"array-1", "array-2"}
PairMessage(i) == IF i = 1 THEN "first request" ELSE "second request"
PairToolUse(i, iteration) ==
  ToolUseBlock(<<i, iteration>>, "search_documentation", PlainInput)
PairTools(i) ==
  convertToolsToAnthropic(LimitTools(ToolList("base", i, "repeated"),
                                     ToolList("adhoc", i, "shadowing")))

NoInstance ==
  [pc |-> "start", history |-> "array-1", iterationCount |-> 0, continueLoop |-> TRUE,
   anthropicTools |-> <<>>, events |-> <<>>, arrival |-> <<>>, own |-> <<>>, sent |-> <<>>]

\* The input object of a tool_use block is shared with the array it sits in.
WithInput(turns, id, input) ==
  [t \in 1..Len(turns) |->
     IF turns[t].role # "assistant" THEN turns[t]
     ELSE [turns[t] EXCEPT !.content =
             [b \in 1..Len(turns[t].content) |->
                IF turns[t].content[b].type = "tool_use" /\ turns[t].content[b].id = id
                  THEN [turns[t].content[b] EXCEPT !.input = input]
                  ELSE turns[t].content[b]]]]

InitPair ==
  /\ request \in { r \in LoopRequests : ~r.conversationHistory.present }
  /\ pc = "pair"
  /\ exit = "none"
  /\ iterationCount = 0
  /\ continueLoop = TRUE
  /\ conversationMessages = <<>>
  /\ events = <<>>
  /\ finalMessage = NoMessage
  /\ toolIdx = 0
  /\ toolResults = <<>>
  /\ streamFailed = FALSE
  /\ providerCalls = 0
  /\ providerLog = <<>>
  /\ toolLog = <<>>
  /\ outcomeLog = <<>>
  /\ deviations = 0
  /\ dispatch = NoDispatch
  /\ isInThinkingBlock = FALSE
  /\ currentContentBlocks = <<>>
  /\ streamed = 0
  /\ closedAt = -1
  /\ toolSet = NoToolSet
  /\ norm = NoNorm
  /\ entry = Entered
  /\ cancelled = FALSE
  /\ \E second \in Arrays, prior \in {<<>>, PriorHistory} :
       pair = [state |-> "running",
               heap |-> [a \in Arrays |-> prior],
               inst |-> [i \in Instances |->
                           [NoInstance EXCEPT !.history = IF i = 1 THEN "array-1" ELSE second]]]

Conversation(i) == pair.heap[pair.inst[i].history]

\* What instance i appends to its array, and what it thereby adds to own.
PushedToCopy(i, turn) == [pair EXCEPT !.inst[i].own = Append(@, turn)]
Pushed(i, turn) ==
  [pair EXCEPT !.heap[pair.inst[i].history] = Append(@, turn),
               !.inst[i].own = Append(@, turn)]

PairFrame ==
  UNCHANGED << request, pc, exit, iterationCount, continueLoop, conversationMessages, events,
               finalMessage, toolIdx, toolResults, streamFailed, providerCalls, providerLog,
               toolLog, outcomeLog, deviations, dispatch, streamVars, closedAt, toolSet,
               norm, entry, cancelled >>

\* createAnthropicStream up to the loop: the tools, the start event, the push
\* of the user message.
PairStart ==
  /\ pc = "pair"
  /\ \E i \in Instances :
       /\ pair.inst[i].pc = "start"
       /\ pair' = [Pushed(i, UserTurn(PairMessage(i))) EXCEPT
                     !.inst[i].pc = "loop",
                     !.inst[i].arrival = Conversation(i),
                     !.inst[i].anthropicTools = PairTools(i),
                     !.inst[i].events = <<StartEvent(entry.mappedModel, entry.systemPrompt)>>]
  /\ PairFrame

\* The loop head: iterationCount++ and the provider call with the array.
PairRequestTurn ==
  /\ pc = "pair"
  /\ \E i \in Instances :
       /\ pair.inst[i].pc = "loop"
       /\ pair.inst[i].continueLoop
       /\ pair.inst[i].iterationCount < maxIterations
       /\ pair' = [pair EXCEPT !.inst[i].pc = "streaming",
                               !.inst[i].iterationCount = @ + 1,
                               !.inst[i].sent = Conversation(i)]
  /\ PairFrame

\* The turn asks for a tool: the assistant turn is pushed.
PairTurnWithTools ==
  /\ pc = "pair"
  /\ \E i \in Instances :
       /\ pair.inst[i].pc = "streaming"
       /\ pair.inst[i].iterationCount < MaxPairTurns
       /\ pair' = [Pushed(i, AssistantTurn(<<PairToolUse(i, pair.inst[i].iterationCount)>>))
                     EXCEPT !.inst[i].pc = "tool"]
  /\ PairFrame

\* The tool call with its two events, and the push of the tool-results turn.
PairToolsDone ==
  /\ pc = "pair"
  /\ \E i \in Instances :
       /\ pair.inst[i].pc = "tool"
       /\ LET toolUse == PairToolUse(i, pair.inst[i].iterationCount)
              after == ToolInputAfter(toolUse.name, toolUse.input, request)
              executionResult == executeToolCall(toolUse.name, toolUse.input, request, "returns")
              written == [pair EXCEPT
                            !.heap[pair.inst[i].history] = WithInput(@, toolUse.id, after),
                            !.inst[i].own = WithInput(@, toolUse.id, after)]
              turn == ToolResultsTurn(<<ToolResultBlock(toolUse, executionResult)>>)
          IN  pair' = [written EXCEPT
                         !.heap[pair.inst[i].history] = Append(@, turn),
                         !.inst[i].own = Append(@, turn),
                         !.inst[i].events = @ \o <<ToolCallEvent(toolUse),
                                                   ToolResultEvent(toolUse, executionResult)>>,
                         !.inst[i].pc = "loop"]
  /\ PairFrame

\* The turn asks for no tool: the done event, continueLoop = false.
PairFinalTurn ==
  /\ pc = "pair"
  /\ \E i \in Instances :
       /\ pair.inst[i].pc = "streaming"
       /\ pair' = [pair EXCEPT !.inst[i].pc = "loop",
                               !.inst[i].continueLoop = FALSE,
                               !.inst[i].events = Append(@, DoneEvent)]
  /\ PairFrame

\* The loop has ended: controller.close().
PairExit ==
  /\ pc = "pair"
  /\ \E i \in Instances :
       /\ pair.inst[i].pc = "loop"
       /\ ~pair.inst[i].continueLoop
       /\ pair' = [pair EXCEPT !.inst[i].pc = "closed"]
  /\ PairFrame

NextPair ==
  \/ PairStart
  \/ PairRequestTurn
  \/ PairTurnWithTools
  \/ PairToolsDone
  \/ PairFinalTurn
  \/ PairExit

SpecPair == InitPair /\ [][NextPair]_vars

\* ------------------------------------------- cleanJsonSchema taken alone
\* The schemas the normalizer is run on.
TypeChoices ==
  { Str("object"), Str("string"), Str("array"), Str(""), Str("text"),
    Null, Num(5), Arr(<<Str("string"), Str("null")>>), Arr(<<>>) }
Untyped == { EmptyObject }
Typed == { [type |-> t] : t \in TypeChoices }
Decorated ==
  { Put([type |-> Str("object")], "required", r) :
      r \in { Arr(<<Str("a")>>), Arr(<<Str(""), Str("a"), Num(5)>>), Arr(<<Str("")>>),
              Str("a"), Num(0), Null } }
  \cup { Put([type |-> Str("string")], "pattern", Str(p)) : p \in PatternChoices }
  \cup { Put([type |-> Str("object")], k, Str("value")) :
           k \in {"$schema", "prefixItems", "nullable", "title"} }
  \cup { Put([type |-> Str("string")], k, v) :
           k \in {"description", "default", "enum"}, v \in {Null, Str(""), Arr(<<>>)} }
Flat == { Obj(entries) : entries \in Untyped \cup Typed \cup Decorated }

NestKinds == {"properties", "items", "itemsList", "anyOf", "oneOf", "allOf", "not"}
Nest(kind, outer, inner) ==
  CASE kind = "properties" -> Obj(Put(outer, "properties", Obj([a |-> inner])))
    [] kind = "items" -> Obj(Put(outer, "items", inner))
    [] kind = "itemsList" -> Obj(Put(outer, "items", Arr(<<inner>>)))
    [] kind = "not" -> Obj(Put(outer, "not", inner))
    [] OTHER -> Obj(Put(outer, kind, Arr(<<inner, Obj([type |-> Str("string")])>>)))

RECURSIVE SchemasOfDepth(_)
SchemasOfDepth(d) ==
  IF d = 0 THEN Flat \cup {Null, Str("not a schema")}
  ELSE { Nest(kind, outer, inner) :
           kind \in NestKinds,
           outer \in {[type |-> Str("object")], [type |-> Str("array")]},
           inner \in SchemasOfDepth(d - 1) }
Schemas == UNION { SchemasOfDepth(d) : d \in 0..MaxNesting } \cup {Absent, Arr(<<>>)}

InitSchema ==
  /\ request \in LoopRequests
  /\ pc = "schema"
  /\ exit = "none"
  /\ iterationCount = 0
  /\ continueLoop = TRUE
  /\ conversationMessages = <<>>
  /\ events = <<>>
  /\ finalMessage = NoMessage
  /\ toolIdx = 0
  /\ toolResults = <<>>
  /\ streamFailed = FALSE
  /\ providerCalls = 0
  /\ providerLog = <<>>
  /\ toolLog = <<>>
  /\ outcomeLog = <<>>
  /\ deviations = 0
  /\ dispatch = NoDispatch
  /\ isInThinkingBlock = FALSE
  /\ currentContentBlocks = <<>>
  /\ streamed = 0
  /\ closedAt = -1
  /\ toolSet = NoToolSet
  /\ entry = Entered
  /\ cancelled = FALSE
  /\ pair = NoPair
  /\ \E schema \in Schemas :
       norm = [NoNorm EXCEPT !.state = "given", !.given = schema]

\* cleanJsonSchema(schema)
Normalize ==
  /\ pc = "schema"
  /\ norm.state = "given"
  /\ norm' = [norm EXCEPT !.state = "once", !.once = cleanJsonSchema(norm.given)]
  /\ UNCHANGED << request, pc, exit, iterationCount, continueLoop, conversationMessages, events,
                  finalMessage, toolIdx, toolResults, streamFailed, providerCalls, providerLog,
                  toolLog, outcomeLog, deviations, dispatch, streamVars, closedAt, toolSet,
                  entry, cancelled, pair >>

\* cleanJsonSchema on what it returned, when it returned.
NormalizeAgain ==
  /\ pc = "schema"
  /\ norm.state = "once"
  /\ norm.once # Thrown
  /\ norm' = [norm EXCEPT !.state = "twice", !.twice = cleanJsonSchema(norm.once)]
  /\ UNCHANGED << request, pc, exit, iterationCount, continueLoop, conversationMessages, events,
                  finalMessage, toolIdx, toolResults, streamFailed, providerCalls, providerLog,
                  toolLog, outcomeLog, deviations, dispatch, streamVars, closedAt, toolSet,
                  entry, cancelled, pair >>

\* The schema convertToolsToAnthropic sends for a tool that declares this one.
Convert ==
  /\ pc = "schema"
  /\ norm.state = "given"
  /\ norm' = [norm EXCEPT !.state = "sent", !.sent = InputSchema(norm.given)]
  /\ UNCHANGED << request, pc, exit, iterationCount, continueLoop, conversationMessages, events,
                  finalMessage, toolIdx, toolResults, streamFailed, providerCalls, providerLog,
                  toolLog, outcomeLog, deviations, dispatch, streamVars, closedAt, toolSet,
                  entry, cancelled, pair >>

NextSchema ==
  \/ Normalize
  \/ NormalizeAgain
  \/ Convert

SpecSchema == InitSchema /\ [][NextSchema]_vars

\* ------------------------------------------- executeToolCall taken alone
\* What the model may send as the input of a tool_use block.
DispatchInputs ==
  { PlainInput, SpoofedInput,
    Put(PlainInput, "workflowId", "wf-model"),
    Put(PlainInput, "credential", "model-credential"),
    [code |-> "return 1"] }

InitDispatch ==
  /\ request \in Requests
  /\ pc = "dispatch"
  /\ exit = "none"
  /\ iterationCount = 0
  /\ continueLoop = TRUE
  /\ conversationMessages = request.conversationHistory.turns
  /\ events = <<>>
  /\ finalMessage = NoMessage
  /\ toolIdx = 0
  /\ toolResults = <<>>
  /\ streamFailed = FALSE
  /\ providerCalls = 0
  /\ providerLog = <<>>
  /\ toolLog = <<>>
  /\ outcomeLog = <<>>
  /\ deviations = 0
  /\ isInThinkingBlock = FALSE
  /\ currentContentBlocks = <<>>
  /\ streamed = 0
  /\ closedAt = -1
  /\ norm = NoNorm
  /\ entry = Entered
  /\ cancelled = FALSE
  /\ pair = NoPair
  /\ toolSet = NoToolSet
  /\ \E toolName \in ToolNames, toolInput \in DispatchInputs, behaviour \in Behaviours :
       dispatch = [NoDispatch EXCEPT !.state = "called", !.toolName = toolName,
                                     !.given = toolInput, !.toolInput = toolInput,
                                     !.behaviour = behaviour]

\* executeToolCall runs up to the await of the tool: the writes to toolInput
\* and the arguments the tool is invoked with.
DispatchInvoke ==
  /\ pc = "dispatch"
  /\ dispatch.state = "called"
  /\ dispatch' = [dispatch EXCEPT
                    !.state = "invoked",
                    !.toolInput = ToolInputAfter(dispatch.toolName, dispatch.given, request),
                    !.args = ToolArgs(dispatch.toolName, dispatch.given, request),
                    !.context = ToolContext(dispatch.toolName, request)]
  /\ UNCHANGED << request, pc, exit, iterationCount, continueLoop, conversationMessages, events,
                  finalMessage, toolIdx, toolResults, streamFailed, providerCalls, providerLog,
                  toolLog, outcomeLog, deviations, streamVars, closedAt, toolSet, auxVars >>

\* The tool settles and executeToolCall returns (or throws) to its caller.
DispatchSettle ==
  /\ pc = "dispatch"
  /\ dispatch.state = "invoked"
  /\ dispatch' = [dispatch EXCEPT
                    !.state = "settled",
                    !.result = executeToolCall(dispatch.toolName, dispatch.given, request,
                                               dispatch.behaviour)]
  /\ UNCHANGED << request, pc, exit, iterationCount, continueLoop, conversationMessages, events,
                  finalMessage, toolIdx, toolResults, streamFailed, providerCalls, providerLog,
                  toolLog, outcomeLog, deviations, streamVars, closedAt, toolSet, auxVars >>

NextDispatch ==
  \/ DispatchInvoke
  \/ DispatchSettle

SpecDispatch == InitDispatch /\ [][NextDispatch]_vars


\* ------------------------------------------------- reading the histories
CountType(t) == Cardinality({ i \in 1..Len(events) : events[i].type = t })

HistoryLen == Len(request.conversationHistory.turns)

\* The completed turns that asked for tools, in order.
ToolTurns == SelectSeq(providerLog, LAMBDA t : t.kind = "tool_use")

\* The call identifiers requested in a content, in the provider's order.
RequestIds(content) ==
  LET f == SelectSeq(content, LAMBDA c : c.type = "tool_use")
  IN  [i \in 1..Len(f) |-> f[i].id]

RECURSIVE IdsUpTo(_)
IdsUpTo(j) == IF j = 0 THEN <<>> ELSE IdsUpTo(j - 1) \o RequestIds(ToolTurns[j].content)
ProviderIds == IdsUpTo(Len(ToolTurns))

CallEventIds ==
  LET f == SelectSeq(events, LAMBDA e : e.type = "tool_call")
  IN  [i \in 1..Len(f) |-> f[i].id]
ResultEventIds ==
  LET f == SelectSeq(events, LAMBDA e : e.type = "tool_result")
  IN  [i \in 1..Len(f) |-> f[i].toolCallId]

IsPrefix(s, t) == Len(s) <= Len(t) /\ s = SubSeq(t, 1, Len(s))

\* A content with the input of its tool_use blocks left out.
Shape(content) ==
  [i \in 1..Len(content) |->
     IF content[i].type = "tool_use"
       THEN [type |-> "tool_use", id |-> content[i].id, name |-> content[i].name]
       ELSE content[i]]

\* A call of the batch of finalMessage failed.
BatchFailed ==
  \E i \in 1..Len(outcomeLog), k \in 1..Len(RequestIds(finalMessage.content)) :
    outcomeLog[i].failed /\ outcomeLog[i].id = RequestIds(finalMessage.content)[k]

BatchDone == finalMessage.stop_reason = "tool_use" /\ pc \in {"loop", "streaming", "closed"}

AlwaysToolUse == \A i \in 1..Len(providerLog) : providerLog[i].kind = "tool_use"

\* ------------------------------------------------------------------ C1
\* C1: in every reachable state the iteration counter is between 0 and 10 and
\* the provider has been asked for a turn at most 10 times.
C1_IterationBound ==
  /\ iterationCount \in 0..10
  /\ providerCalls \in 0..10
  /\ Len(providerLog) <= 10

C1_Witness == pc = "streaming" /\ iterationCount = 10 /\ providerCalls = 10

C3_FinalTurnEndsInDone ==
  (pc = "closed" /\ providerLog # <<>> /\ Last(providerLog).kind = "final") =>
    /\ \E i \in 1..Len(events) : events[i] = FinalDoneEvent(finalMessage)
    /\ CountType("error") = 0
    /\ exit = "loop"

\* ------------------------------------------------------------------ C4
\* C4: once the channel is closed the stream holds exactly one done event and
\* it is the last event written.
C4_OneDoneLast ==
  pc = "closed" => (CountType("done") = 1 /\ Last(events).type = "done")

\* ------------------------------------------------------------------ C5
\* C5: after a transport error exactly one error event is emitted, followed by
\* one done event and the close; no further turn is requested and no tool runs.
C5_SingleErrorOnTransportFailure ==
  (pc = "closed" /\ \E i \in 1..Len(providerLog) : providerLog[i].kind = "error") =>
    /\ CountType("error") = 1
    /\ CountType("done") = 1
    /\ Last(events).type = "done"
    /\ events[Len(events) - 1].type = "error"
    /\ Last(providerLog).kind = "error"
    /\ providerCalls = Len(providerLog)
    /\ Len(toolLog) = Len(ProviderIds)

C7_NeverThrows ==
  dispatch.state = "settled" =>
    /\ ~dispatch.result.threw
    /\ Failing(dispatch.toolName, dispatch.behaviour) =>
         /\ dispatch.result.success = FALSE
         /\ dispatch.result.error # Undefined
         /\ dispatch.result.result = Undefined
    /\ ~Failing(dispatch.toolName, dispatch.behaviour) =>
         /\ dispatch.result.success = TRUE
         /\ dispatch.result.error = Undefined

C7_Witness ==
  /\ dispatch.state = "settled"
  /\ dispatch.toolName = "no_such_tool"
  /\ dispatch.behaviour = "throwsValue"
  /\ dispatch.result = Returned(FALSE, Undefined, "Unknown execution error")

AppendOnlyStep ==
  /\ Len(conversationMessages') >= Len(conversationMessages)
  /\ \A i \in 1..Len(conversationMessages) :
       conversationMessages'[i] = conversationMessages[i]
C10_AppendOnly == [][AppendOnlyStep]_vars

\* ----------------------------------------------------------------- C11
\* C11: the first event written is the start event, it is written once, and
\* it is written before the first provider turn is requested, so every other
\* event comes after it.
C11_StartFirst ==
  /\ events # <<>> => events[1].type = "start" /\ CountType("start") = 1
  /\ providerCalls > 0 => events # <<>>
  /\ pc # "start" => events # <<>>

C11_Witness ==
  /\ providerCalls >= 2
  /\ CountType("content") > 0
  /\ CountType("tool_result") > 0
  /\ events[1].type = "start"

\* ----------------------------------------------------------------- C12
\* C12: a reasoning end marker is written only when more start markers than
\* end markers precede it, and a reasoning delta only while a phase is open.
IsDelta(e) == e.type = "reasoning" /\ e.phase = "delta"
StartsBefore(i) == Cardinality({ j \in 1..(i - 1) : events[j] = ReasoningStartEvent })
EndsBefore(i) == Cardinality({ j \in 1..(i - 1) : events[j] = ReasoningEndEvent })

C12_MarkersMatched ==
  \A i \in 1..Len(events) :
    (events[i] = ReasoningEndEvent \/ IsDelta(events[i]))
      => StartsBefore(i) > EndsBefore(i)

C12_Witness ==
  \E i, j \in 1..Len(events) :
    /\ i < j
    /\ IsDelta(events[i])
    /\ events[j] = ReasoningEndEvent
    /\ events[1].type = "start"
    /\ events[2].type = "content"

\* ----------------------------------------------------------------- C13
\* C13: every maximal run of reasoning deltas has a start marker right before
\* its first delta and an end marker right after its last one, so no other
\* event (tool_call, done, error, a further start) follows a delta directly,
\* also when the run is the last thing a turn streams.
C13_RunsEnclosed ==
  \A i \in 1..Len(events) :
    IsDelta(events[i]) =>
      /\ i > 1
      /\ events[i - 1] = ReasoningStartEvent \/ IsDelta(events[i - 1])
      /\ i < Len(events) =>
            events[i + 1] = ReasoningEndEvent \/ IsDelta(events[i + 1])

\* ----------------------------------------------------------------- C14
\* C14: once controller.close() has run nothing more is written, on the exit
\* after a final turn, on the cap exit and on the catch exit.
C14_NoWriteAfterClose ==
  /\ closedAt # -1 => Len(events) = closedAt
  /\ pc = "closed" <=> closedAt # -1

C14_Witness ==
  /\ pc = "closed"
  /\ closedAt = Len(events)
  /\ exit = "cap"
  /\ events[Len(events)] = DoneEvent

\* ----------------------------------------------------------------- C15
\* C15: the converted list holds each distinct name of the list it was given
\* exactly once, the entry being the conversion of the first tool of that
\* name, and the entries keep the order of those first occurrences.
Names(seq) == { seq[i].name : i \in 1..Len(seq) }
FirstIndex(seq, name) ==
  CHOOSE i \in 1..Len(seq) :
    seq[i].name = name /\ \A j \in 1..(i - 1) : seq[j].name # name
HasDuplicates(seq) == \E i, j \in 1..Len(seq) : i < j /\ seq[i].name = seq[j].name

C15_FirstOccurrenceKept ==
  toolSet.state = "converted" =>
    LET given == toolSet.toolsToConvert
        sent == toolSet.anthropicTools
    IN  /\ ~HasDuplicates(sent)
        /\ Names(sent) = Names(given)
        /\ \A k \in 1..Len(sent) :
             sent[k] = ConvertedTool(given[FirstIndex(given, sent[k].name)])
        /\ \A k, l \in 1..Len(sent) :
             k < l => FirstIndex(given, sent[k].name) < FirstIndex(given, sent[l].name)

C15_Witness ==
  /\ toolSet.state = "converted"
  /\ HasDuplicates(toolSet.toolsToConvert)
  /\ Len(toolSet.anthropicTools) >= 2
  /\ Len(toolSet.anthropicTools) < Len(toolSet.toolsToConvert)

\* ----------------------------------------------------------------- C16
\* C16: whatever the lengths of baseTools and tools, at most MAX_TOOLS tools
\* are converted and sent.
C16_AtMostCap ==
  /\ toolSet.state \in {"limited", "converted"} => Len(toolSet.toolsToConvert) <= MAX_TOOLS
  /\ toolSet.state = "converted" => Len(toolSet.anthropicTools) <= MAX_TOOLS

C16_Witness ==
  /\ toolSet.state = "converted"
  /\ Len(toolSet.baseTools) > MAX_TOOLS
  /\ Len(toolSet.tools) > MAX_TOOLS
  /\ Len(toolSet.anthropicTools) = MAX_TOOLS

\* ----------------------------------------------------------------- C17
\* C17: with more than MAX_TOOLS tools in all, fewer than MAX_TOOLS base
\* tools and no name used twice, what is sent is every base tool in order and
\* then the first MAX_TOOLS - b ad hoc tools in order.
OverCap == Len(toolSet.baseTools) + Len(toolSet.tools) > MAX_TOOLS
Converted(seq) == [i \in 1..Len(seq) |-> ConvertedTool(seq[i])]

C17_BaseThenFirstAdHoc ==
  ( /\ toolSet.state = "converted"
    /\ OverCap
    /\ Len(toolSet.baseTools) < MAX_TOOLS
    /\ ~HasDuplicates(toolSet.baseTools \o toolSet.tools) )
  => toolSet.anthropicTools =
       Converted(toolSet.baseTools)
         \o Converted(SubSeq(toolSet.tools, 1, MAX_TOOLS - Len(toolSet.baseTools)))

C17_Witness ==
  /\ toolSet.state = "converted"
  /\ OverCap
  /\ Len(toolSet.baseTools) \in 1..(MAX_TOOLS - 1)
  /\ ~HasDuplicates(toolSet.baseTools \o toolSet.tools)
  /\ Len(toolSet.anthropicTools) = MAX_TOOLS
  /\ toolSet.anthropicTools[MAX_TOOLS].name \in Names(toolSet.tools)

\* ----------------------------------------------------------------- C18
\* C18 as stated: whenever the combined list is over the cap, every name of a
\* base tool is among the names sent, however many base tools there are.
C18_EveryBaseToolSent ==
  (toolSet.state = "converted" /\ OverCap)
    => Names(toolSet.baseTools) \subseteq Names(toolSet.anthropicTools)

\* C18 as the code has it: over the cap with at most MAX_TOOLS base tools,
\* every name of a base tool is among the names sent; with more, only the
\* first MAX_TOOLS base tools are kept and no ad hoc tool is.
C18_BaseToolsSentUpToCap ==
  (toolSet.state = "converted" /\ OverCap) =>
    /\ Len(toolSet.baseTools) <= MAX_TOOLS
         => Names(toolSet.baseTools) \subseteq Names(toolSet.anthropicTools)
    /\ Len(toolSet.baseTools) > MAX_TOOLS
         => Names(toolSet.anthropicTools) = Names(SubSeq(toolSet.baseTools, 1, MAX_TOOLS))

C18_Witness ==
  /\ toolSet.state = "converted"
  /\ OverCap
  /\ Len(toolSet.baseTools) = MAX_TOOLS
  /\ Len(toolSet.tools) > 0
  /\ Names(toolSet.baseTools) \subseteq Names(toolSet.anthropicTools)

\* ----------------------------------------------------------------- C19
\* C19: for a registry tool the credential field the tool receives is the
\* request's OAuth provider when there is exactly one, and is what the model
\* supplied (present or absent) when there is none or more than one.
Field(obj, k) == IF k \in DOMAIN obj THEN obj[k] ELSE Undefined

C19_CredentialOnlyWhenSingle ==
  (dispatch.state # "called" /\ dispatch.toolName \in RegistryTools) =>
    IF Len(request.oauth) = 1
      THEN Field(dispatch.args, "credential") = request.oauth[1]
      ELSE Field(dispatch.args, "credential") = Field(dispatch.given, "credential")

\* ----------------------------------------------------------------- C20
\* C20: whatever the tool, the input it is invoked with holds a _context
\* object with the request's workflow id and user id.
C20_ContextAlways ==
  dispatch.state # "called" =>
    /\ "_context" \in DOMAIN dispatch.args
    /\ dispatch.args["_context"] = RequestContext(request)

\* ----------------------------------------------------------------- C21
\* C21: each of the four privileged tools is invoked with the request's
\* workflow id and user id, in its input or in the context passed along with
\* it, when the model's input holds neither.
Received(k) ==
  IF k \in DOMAIN dispatch.args THEN dispatch.args[k]
  ELSE IF k \in DOMAIN dispatch.context THEN dispatch.context[k]
  ELSE Undefined

C21_PrivilegedGetIdentifiers ==
  ( /\ dispatch.state # "called"
    /\ dispatch.toolName \in PrivilegedTools
    /\ "workflowId" \notin DOMAIN dispatch.given
    /\ "userId" \notin DOMAIN dispatch.given )
  => /\ Received("workflowId") = request.workflowId
     /\ Received("userId") = request.userId

\* ----------------------------------------------------------------- C22
\* C22: cleanJsonSchema returns for every schema, and run on what it returned
\* it returns the same value again.
C22_Idempotent ==
  /\ norm.state = "once" => norm.once # Thrown
  /\ norm.state = "twice" => norm.twice = norm.once

\* ----------------------------------------------------------------- C23
\* C23: what cleanJsonSchema returns is an object whose type is one of the
\* seven primitive names, and so is every schema nested in it under
\* properties, items, anyOf, oneOf, allOf and not.
RECURSIVE WellTyped(_)
WellTyped(v) ==
  /\ v.kind = "object"
  /\ Has(v.val, "type")
  /\ v.val["type"].kind = "string"
  /\ v.val["type"].val \in validTypes
  /\ \A k \in DOMAIN v.val :
       /\ k = "properties" /\ v.val[k].kind = "object"
            => \A name \in DOMAIN v.val[k].val : WellTyped(v.val[k].val[name])
       /\ k \in {"items", "anyOf", "oneOf", "allOf"} /\ v.val[k].kind = "array"
            => \A i \in 1..Len(v.val[k].val) : WellTyped(v.val[k].val[i])
       /\ k \in {"items", "not"} /\ v.val[k].kind # "array" => WellTyped(v.val[k])

C23_ValidTypeEverywhere ==
  norm.state \in {"once", "twice"} => WellTyped(norm.once)

\* ----------------------------------------------------------------- C24
\* C24: of an object schema the normalizer keeps a type that is one of the
\* seven names, turns the empty string into "object", any other type that is
\* present into "string", and an absent type into "object".
ExpectedType(entries) ==
  IF ~Has(entries, "type") THEN Str("object")
  ELSE IF entries["type"].kind = "string" /\ entries["type"].val \in validTypes
         THEN entries["type"]
  ELSE IF entries["type"] = Str("") THEN Str("object")
  ELSE Str("string")

C24_TypeMapping ==
  (norm.state = "once" /\ norm.given.kind = "object") =>
    /\ norm.once.kind = "object"
    /\ Has(norm.once.val, "type")
    /\ norm.once.val["type"] = ExpectedType(norm.given.val)

\* ----------------------------------------------------------------- C25
\* C25: with a provider that is not supported, a provider whose key is not
\* configured, or the OpenAI provider, handleLocalAgentRequest throws and the
\* request never gets a stream: no event is written and no provider turn is
\* requested; only a request that did not throw writes events.
ConfigurationError(call) ==
  LET provider == IF call.provider = Undefined THEN "anthropic" ELSE call.provider
  IN  \/ provider \notin {"anthropic", "claude"}
      \/ ~call.anthropicKey

C25_ThrowsBeforeStream ==
  /\ (entry.state # "called" /\ ConfigurationError(entry)) => entry.state = "threw"
  /\ entry.state = "threw" =>
       /\ entry.thrown # "none"
       /\ pc = "threw"
       /\ events = <<>>
       /\ providerCalls = 0
  /\ (events # <<>> \/ providerCalls > 0) => entry.state = "streaming"

C25_Witness ==
  /\ entry.state = "threw"
  /\ entry.provider = "openai"
  /\ entry.openaiKey
  /\ entry.thrown = "OpenAI support not yet implemented"
  /\ events = <<>>

\* ----------------------------------------------------------------- C28
\* C28: a cached system prompt that the request supplies is the system prompt
\* of the request as it stands; and the text the start event carries is the
\* text every provider call of the request is made with.
C28_CachedPromptUnchanged ==
  /\ (entry.state = "streaming" /\ entry.systemPromptCache # <<>>)
       => entry.systemPrompt = entry.systemPromptCache
  /\ events # <<>> =>
       /\ events[1].systemPrompt = entry.systemPrompt
       /\ \A i \in 1..Len(providerLog) : providerLog[i].system = events[1].systemPrompt

C28_Witness ==
  /\ Len(providerLog) >= 2
  /\ entry.systemPromptCache = <<"a prompt cached earlier">>
  /\ entry.userName = "Ada"
  /\ entry.context # <<>>
  /\ events[1].systemPrompt = <<"a prompt cached earlier">>

\* ----------------------------------------------------------------- C30
\* C30: when the first provider turn is requested the conversation is the
\* caller's history, in its order, followed by the new user message; those
\* turns stay the head of the conversation.
C30_HistoryThenUserMessage ==
  LET opening == request.conversationHistory.turns \o <<UserTurn(request.message)>>
  IN  /\ (pc # "start" /\ providerCalls = 0) => conversationMessages = opening
      /\ pc # "start" => IsPrefix(opening, conversationMessages)

C30_Witness ==
  /\ pc = "streaming"
  /\ providerCalls = 1
  /\ request.conversationHistory.present
  /\ conversationMessages = PriorHistory \o <<UserTurn(request.message)>>

\* ----------------------------------------------------------------- C29
\* C29: the catch block (error, done, close) runs only in a request whose
\* provider stream has failed; no tool call and no other step leads to it.
C29_ErrorOnlyFromStreamFailure ==
  exit = "catch" => \E i \in 1..Len(providerLog) : providerLog[i].kind = "error"

\* ----------------------------------------------------------------- C26
\* C26: once the consumer has cancelled the stream, no step of the request
\* asks for a provider turn, starts a tool, writes an event, or puts a tool
\* result into the batch or the conversation; the tool in flight may settle.
QuietStep ==
  cancelled =>
    /\ providerCalls' = providerCalls
    /\ toolLog' = toolLog
    /\ events' = events
    /\ toolResults' \in {toolResults, <<>>}
    /\ \/ conversationMessages' = conversationMessages
       \/ /\ Len(conversationMessages') = Len(conversationMessages) + 1
          /\ Last(conversationMessages').role = "assistant"
C26_CancelIsTerminal == [][QuietStep]_vars

C26_Witness ==
  /\ cancelled
  /\ pc = "aborted"
  /\ Len(outcomeLog) = Len(toolLog)
  /\ Len(outcomeLog) >= 2
  /\ CountType("tool_result") = Len(outcomeLog) - 1
  /\ iterationCount < maxIterations

\* ----------------------------------------------------------------- C27
\* C27: of two requests handled at once, each has the conversation, the
\* provider input, the tool set, the counter and the events it would have
\* alone: its conversation is what its array held on arrival followed by the
\* turns it appended itself, and that is what its provider calls are given.
Alone(i) == pair.inst[i].arrival \o pair.inst[i].own

C27_RequestsIndependent ==
  pair.state = "running" =>
    \A i \in Instances :
      pair.inst[i].pc # "start" =>
        /\ Conversation(i) = Alone(i)
        /\ IsPrefix(pair.inst[i].sent, Alone(i))
        /\ pair.inst[i].anthropicTools = PairTools(i)
        /\ pair.inst[i].iterationCount <= MaxPairTurns
        /\ pair.inst[i].events[1].type = "start"

\* ----------------------------------------------------------------- C31
\* C31: a tool whose input schema is missing, null or an empty object is sent
\* to the provider with the schema {type: object, properties: {}}, both when
\* the schema is converted alone and in the tool list of a request.
EmptyStructure(rawSchema) ==
  rawSchema \in {Absent, Null, Obj(EmptyObject)}

C31_DefaultSchemaForEmpty ==
  /\ norm.state = "sent" /\ EmptyStructure(norm.given) => norm.sent = DefaultSchema
  /\ toolSet.state = "converted" =>
       \A k \in 1..Len(toolSet.anthropicTools) :
         LET first == CHOOSE i \in 1..Len(toolSet.toolsToConvert) :
                        /\ toolSet.toolsToConvert[i].name = toolSet.anthropicTools[k].name
                        /\ \A j \in 1..(i - 1) :
                             toolSet.toolsToConvert[j].name # toolSet.anthropicTools[k].name
         IN  EmptyStructure(toolSet.toolsToConvert[first].input_schema)
               => toolSet.anthropicTools[k].input_schema = DefaultSchema

C31_Witness ==
  /\ norm.state = "sent"
  /\ norm.given = Obj(EmptyObject)
  /\ norm.sent = DefaultSchema

\* ----------------------------------------------------------------- C32
\* C32: in what the normalizer returns, required is present only as the
\* non-empty array of the non-empty strings of the given required array, in
\* their order, and is absent when the given required is no array or when no
\* entry survives.
Survivors(required) ==
  IF required.kind = "array"
    THEN SelectSeq(required.val, LAMBDA item : item.kind = "string" /\ item.val # "")
    ELSE <<>>

C32_RequiredFiltered ==
  /\ norm.state = "once"
  /\ norm.given.kind = "object"
  /\ norm.once.kind = "object"
  /\ Has(norm.given.val, "required")
  => IF Survivors(norm.given.val["required"]) # <<>>
       THEN /\ Has(norm.once.val, "required")
            /\ norm.once.val["required"] = Arr(Survivors(norm.given.val["required"]))
       ELSE ~Has(norm.once.val, "required")

\* ----------------------------------------------------------------- C33
\* C33: in what the normalizer returns no key holds null or the empty string,
\* no key but properties and default holds an empty object or an empty array,
\* and a default of the given schema is kept with its value.
EmptyValue(value) ==
  \/ value.kind = "object" /\ DOMAIN value.val = {}
  \/ value.kind = "array" /\ value.val = <<>>

C33_FinalPassClean ==
  /\ norm.state = "once"
  /\ norm.given.kind = "object"
  /\ norm.once.kind = "object"
  => /\ \A k \in DOMAIN norm.once.val :
          /\ norm.once.val[k].kind \notin {"null", "undefined"}
          /\ norm.once.val[k] # Str("")
          /\ k \notin {"properties", "default"} => ~EmptyValue(norm.once.val[k])
     /\ Has(norm.given.val, "default") =>
          /\ Has(norm.once.val, "default")
          /\ norm.once.val["default"] = norm.given.val["default"]

\* ----------------------------------------------------------------- C34
\* C34: a pattern that does not compile is never in what the normalizer
\* returns: the pattern key is gone or holds the escaped pattern, which
\* compiles; a pattern that compiles is returned as given.  Read at the top
\* level and in a schema nested under properties or not.
PatternHandled(given, out) ==
  /\ given.kind = "object"
  /\ out.kind = "object"
  /\ Has(given.val, "pattern")
  /\ given.val["pattern"].kind = "string"
  => LET p == given.val["pattern"].val
     IN  IF ValidRegExp(p)
           THEN Has(out.val, "pattern") /\ out.val["pattern"] = Str(p)
           ELSE \/ ~Has(out.val, "pattern")
                \/ /\ out.val["pattern"] = Str(EscapeBackslashes(p))
                   /\ ValidRegExp(EscapeBackslashes(p))

NestedUnder(schema, k) ==
  IF schema.kind = "object" /\ Has(schema.val, k)
    THEN IF k = "properties" THEN schema.val[k].val["a"] ELSE schema.val[k]
    ELSE Null

C34_InvalidPatternNotForwarded ==
  norm.state = "once" =>
    /\ PatternHandled(norm.given, norm.once)
    /\ \A k \in {"properties", "not"} :
         PatternHandled(NestedUnder(norm.given, k), NestedUnder(norm.once, k))

C34_Witness ==
  /\ norm.state = "once"
  /\ norm.given.kind = "object"
  /\ Has(norm.given.val, "not")
  /\ NestedUnder(norm.given, "not") = Obj([type |-> Str("string"), pattern |-> Str("[a-z")])
  /\ NestedUnder(norm.once, "not") = Obj([type |-> Str("string")])

\* ----------------------------------------------------------------- C35
\* C35: with every provider turn and every tool call settling, a request
\* comes to its end: the loop is left after a final turn (Done), by the catch
\* block (Error) or at the cap (MaxIterationsReached), the outcome is written
\* and the channel is closed after it.
Ended ==
  /\ pc = "closed"
  /\ closedAt = Len(events)
  /\ \/ exit = "loop" /\ ~continueLoop /\ Last(events).type = "done"
     \/ exit = "catch" /\ \E k \in 1..Len(events) : events[k].type = "error"
     \/ exit = "cap" /\ iterationCount = maxIterations
                     /\ \E k \in 1..Len(events) : events[k] = CapErrorEvent

C35_EventuallyEnded == <>Ended

C35_Witness ==
  /\ Ended
  /\ exit = "cap"
  /\ providerCalls = maxIterations
  /\ Len(toolLog) >= maxIterations

\* ----------------------------------------------------------------- C36
\* C36: when the loop ends at the cap with the tenth turn asking for tools,
\* every tool of that turn has been called and has its tool_result event
\* before the cap error event, the last turn of the conversation is the
\* tool-results turn of that batch, and no eleventh provider turn was asked.
EventAt(event) == CHOOSE k \in 1..Len(events) : events[k] = event

C36_TenthBatchRunsBeforeCap ==
  pc = "closed" /\ exit = "cap" /\ continueLoop =>
    LET blocks == ToolUseBlocks(finalMessage.content)
    IN  /\ providerCalls = maxIterations
        /\ Len(blocks) >= 1
        /\ \E k \in 1..Len(events) : events[k] = CapErrorEvent
        /\ \A b \in 1..Len(blocks) :
             /\ \E t \in 1..Len(toolLog) : toolLog[t].id = blocks[b].id
             /\ \E k \in 1..(EventAt(CapErrorEvent) - 1) :
                  events[k].type = "tool_result" /\ events[k].toolCallId = blocks[b].id
        /\ Last(conversationMessages).role = "user"
        /\ Len(Last(conversationMessages).content) = Len(blocks)
        /\ \A b \in 1..Len(blocks) :
             /\ Last(conversationMessages).content[b].type = "tool_result"
             /\ Last(conversationMessages).content[b].tool_use_id = blocks[b].id

C36_Witness ==
  /\ pc = "closed"
  /\ exit = "cap"
  /\ continueLoop
  /\ Len(ToolUseBlocks(finalMessage.content)) = 2
  /\ Last(conversationMessages).content[2].type = "tool_result"

\* ----------------------------------------------------------------- C37
\* C37: when a request ends after a turn without tool requests, that turn is
\* not in the conversation: the turns after the caller's history are the user
\* message and then, for every turn but the last, an assistant turn followed
\* by a tool-results turn, so the conversation ends with a user-role turn.
C37_FinalTurnNotAppended ==
  pc = "closed" /\ exit \in {"loop", "cap"} /\ ~continueLoop =>
    LET appended == SubSeq(conversationMessages, HistoryLen + 2, Len(conversationMessages))
    IN  /\ Last(conversationMessages).role = "user"
        /\ conversationMessages[HistoryLen + 1] = UserTurn(request.message)
        /\ Len(appended) = 2 * (providerCalls - 1)
        /\ \A k \in 1..Len(appended) :
             appended[k].role = IF k % 2 = 1 THEN "assistant" ELSE "user"
        /\ \A k \in 1..Len(appended) :
             k % 2 = 0 => appended[k].content[1].type = "tool_result"

C37_Witness ==
  /\ pc = "closed"
  /\ exit = "loop"
  /\ ~continueLoop
  /\ providerCalls = 3
  /\ Len(conversationMessages) = HistoryLen + 5
  /\ finalMessage.content = <<TextBlock("final answer")>>

\* ----------------------------------------------------------------- C38
\* C38: a registry tool is invoked with _context equal to the request's
\* workflow id and user id, whatever _context the model put in the input.
C38_ContextOverridden ==
  dispatch.state \in {"invoked", "settled"} /\ dispatch.toolName \in RegistryTools =>
    /\ "_context" \in DOMAIN dispatch.args
    /\ dispatch.args["_context"] = RequestContext(request)
    /\ \A k \in DOMAIN dispatch.given :
         k # "_context" /\ k # "credential" => dispatch.args[k] = dispatch.given[k]

C38_Witness ==
  /\ dispatch.state = "invoked"
  /\ dispatch.toolName = "search_documentation"
  /\ dispatch.given = SpoofedInput
  /\ dispatch.given["_context"] # RequestContext(request)
  /\ dispatch.args["_context"] = RequestContext(request)

\* ----------------------------------------------------------------- C39
\* C39: edit_workflow and get_workflow_console are invoked with the
\* workflowId of the model's input when it holds one and with the request's
\* otherwise; edit_workflow is passed the request's userId.
C39_WorkflowIdPrecedence ==
  /\ dispatch.state \in {"invoked", "settled"}
  /\ dispatch.toolName \in {"edit_workflow", "get_workflow_console"}
  => /\ dispatch.args["workflowId"] =
          IF "workflowId" \in DOMAIN dispatch.given
            THEN dispatch.given["workflowId"]
            ELSE request.workflowId
     /\ dispatch.toolName = "edit_workflow" => dispatch.context = [userId |-> request.userId]

C39_Witness ==
  /\ dispatch.state = "invoked"
  /\ dispatch.toolName = "edit_workflow"
  /\ "workflowId" \in DOMAIN dispatch.given
  /\ dispatch.given["workflowId"] # request.workflowId
  /\ dispatch.args["workflowId"] = dispatch.given["workflowId"]
  /\ dispatch.context = [userId |-> request.userId]

\* ----------------------------------------------------------------- C40
\* C40: the turns of a request are appended to the array its caller passed:
\* when the request has ended, and no other request was given the same array,
\* the caller's array holds what it held on arrival, then the user message,
\* then an assistant turn and a tool-results turn for every turn that asked
\* for tools.
C40_CallerHistoryAppendedInPlace ==
  pair.state = "running" /\ pair.inst[1].history # pair.inst[2].history =>
    \A i \in Instances :
      pair.inst[i].pc = "closed" =>
        LET array == pair.heap[pair.inst[i].history]
            before == Len(pair.inst[i].arrival)
        IN  /\ Len(array) = before + 1 + 2 * (pair.inst[i].iterationCount - 1)
            /\ SubSeq(array, 1, before) = pair.inst[i].arrival
            /\ array[before + 1] = UserTurn(PairMessage(i))
            /\ \A k \in (before + 2)..Len(array) :
                 array[k].role = IF (k - before) % 2 = 0 THEN "assistant" ELSE "user"
            /\ SubSeq(array, before + 1, Len(array)) = pair.inst[i].own

C40_Witness ==
  /\ pair.state = "running"
  /\ pair.inst[1].history # pair.inst[2].history
  /\ pair.inst[1].pc = "closed"
  /\ pair.inst[1].arrival = PriorHistory
  /\ Len(pair.heap["array-1"]) = Len(PriorHistory) + 3
  /\ pair.heap["array-1"][Len(PriorHistory) + 3].content[1].type = "tool_result"

====
